---- MODULE Spec2Model ----
(***************************************************************************)
(* FaceCalibration: the hyper-parameter sweep of train.train() and the     *)
(* real-data harness wet_test.main(), as state machines.                   *)
(*                                                                         *)
(* Numbers are exact rationals <<n, d>> (d > 0, lowest terms).  <<0, 0>>   *)
(* stands for every non-finite float (NaN, +Inf, -Inf).                    *)
(***************************************************************************)
EXTENDS Integers, Sequences, FiniteSets, TLC

VARIABLES
    pc,                \* position of the running script
    exception,         \* "none", or the exception that left the script
    data_loader_type,  \* train(data_loader_type=...)
    orientation,       \* train(orientation=...): the enum's .value
    run_id,            \* enumerate(product(...)) index of the current run
    f_error_weight, s_error_weight, calib_lr, sfm_lr,   \* the current combination
    writer,            \* the run's SummaryWriter (metrics sink)
    loader, center,    \* the data loader and the principal point
    optim,             \* the run's Optimizer: two nets and their Adam optimizers
    epoch, i,          \* loop indices of train()
    batch, fgt,        \* loader[i] and its 'f_gt'
    K, S,              \* predictions: K[m] is the 3x3 matrix of frame m; S is "finite" or "nan"
    f_error, s_error, loss,
    saves,             \* tokens handed to optim.save, in order
    ops,               \* calls made so far in the current loop iteration
    diverged,          \* a loss of the current run was NaN or Inf
    USE_OPTIMIZATION,  \* main(): the switch of lines 244-245
    global_iter_count, calib_iter_count, sfm_iter_count,   \* main(): the combination
    checkpoints,       \* the tokens that have an artifact in the checkpoint store
    face_keypoints_tensor,   \* main(): the shape of the landmark tensor
    K_avg, K_gt,       \* main(): the averaged and the ground-truth intrinsic matrix
    sched,             \* the Optimizer's schedule controller
    idx,               \* WetSyntheticLoader.__getitem__(idx)
    f_drawn,           \* __getitem__: the focal length f drawn for the batch
    scale,             \* <<scale_x, scale_y, scale_z>> of the batch
    iter,              \* pose pairs rejected so far (counted up to MaxIter)
    init_pose, final_pose,       \* the pose pair under test, then the accepted one
    projected_landmarks_batch,   \* the frames projected so far
    sample,            \* the dictionary __getitem__ returns
    derivations,       \* calls of _face_blaze_2_dlib_3d so far
    keypoints_list,    \* the argument of convert_keypoints_list_to_tensor
    samples_count,     \* _generate_landmark_projections: the number of frames asked for
    trajectory,        \* the poses of the frames, lines 805-811
    fb_landmarks, fb_width, fb_height, flip_coordinates,   \* face_blaze_2_dlib_2d: arguments
    dlib_landmarks,    \* face_blaze_2_dlib_2d: the array it returns
    random_value,      \* __getitem__, line 527: what random.random() returned
    f_double,          \* __getitem__, line 527: f, a Python float
    noisy_batch,       \* __getitem__, line 541: noisy_face_landmark_projections_batch
    x_permuted,        \* train(), line 129: x.permute(0, 2, 1)
    keypoints_tensor   \* convert_keypoints_list_to_tensor: the tensor it returns

vars == <<pc, exception, data_loader_type, orientation, run_id, f_error_weight,
          s_error_weight, calib_lr, sfm_lr, writer, loader, center, optim, epoch, i,
          batch, fgt, K, S, f_error, s_error, loss, saves, ops, diverged,
          USE_OPTIMIZATION, global_iter_count, calib_iter_count, sfm_iter_count,
          checkpoints, face_keypoints_tensor, K_avg, K_gt, sched, idx, f_drawn, scale,
          iter, init_pose, final_pose, projected_landmarks_batch, sample, derivations,
          keypoints_list, samples_count, trajectory, fb_landmarks, fb_width, fb_height,
          flip_coordinates, dlib_landmarks, random_value, f_double, noisy_batch,
          x_permuted, keypoints_tensor>>

\* groups, for the UNCHANGED clauses
args == <<data_loader_type, orientation>>
combination == <<f_error_weight, s_error_weight, calib_lr, sfm_lr>>
indices == <<epoch, i>>
tensors == <<batch, fgt, K, S, f_error, s_error, loss>>

\* what train() alone uses, and what it never touches
trainOnly == <<data_loader_type, orientation, f_error_weight, s_error_weight, loader,
               epoch, i, batch, fgt, s_error, loss, saves, ops, diverged>>
counts == <<global_iter_count, calib_iter_count, sfm_iter_count>>

\* what WetSyntheticLoader.__getitem__ and the conversion of a landmark list use
getitemLocals == <<idx, f_drawn, scale, iter, init_pose, final_pose,
                   projected_landmarks_batch, sample>>
\* what a direct call of one of the static helper functions uses
trajectoryLocals == <<samples_count, trajectory>>
extractLocals == <<fb_landmarks, fb_width, fb_height, flip_coordinates, dlib_landmarks>>
focalLocals == <<random_value, f_double>>
axisLocals == <<noisy_batch, x_permuted, keypoints_tensor>>
callLocals == <<trajectoryLocals, extractLocals, focalLocals, axisLocals>>
loaderOnly == <<getitemLocals, derivations, keypoints_list, callLocals>>

notTrain == <<USE_OPTIMIZATION, counts, checkpoints, face_keypoints_tensor, K_avg, K_gt,
              sched, loaderOnly>>

----------------------------------------------------------------------------
(* Bounds of the model *)

\* frames per batch (the loaders produce 100)
MFrames == 2

\* the largest samples_count of a direct call of _generate_landmark_projections
MaxSamples == 4

\* batches per epoch explored (train.py sets 500)
BATCHES_PER_EPOCH == 3

\* largest iteration count with which a schedule is called on its own
MaxIterCount == 3

\* rejected pose pairs that are counted (the source counts without end)
MaxIter == 2

----------------------------------------------------------------------------
(* Exact arithmetic standing in for float tensors *)

NaN == <<0, 0>>

IsFinite(r) == r[2] # 0

Abs(n) == IF n < 0 THEN -n ELSE n

RECURSIVE Gcd(_, _)
Gcd(a, b) == IF b = 0 THEN a ELSE Gcd(b, a % b)

Rat(n, d) ==
    IF d = 0 THEN NaN
    ELSE LET g == Gcd(Abs(n), Abs(d))
             s == IF d < 0 THEN -1 ELSE 1
         IN <<(s * n) \div g, (s * d) \div g>>

RatAdd(a, b) ==
    IF IsFinite(a) /\ IsFinite(b) THEN Rat(a[1] * b[2] + b[1] * a[2], a[2] * b[2]) ELSE NaN

RatSub(a, b) ==
    IF IsFinite(a) /\ IsFinite(b) THEN Rat(a[1] * b[2] - b[1] * a[2], a[2] * b[2]) ELSE NaN

RatMul(a, b) ==
    IF IsFinite(a) /\ IsFinite(b) THEN Rat(a[1] * b[1], a[2] * b[2]) ELSE NaN

\* x / 0 is Inf or NaN in float arithmetic: non-finite either way
RatDiv(a, b) ==
    IF IsFinite(a) /\ IsFinite(b) THEN Rat(a[1] * b[2], a[2] * b[1]) ELSE NaN

RatAbs(a) == IF IsFinite(a) THEN <<Abs(a[1]), a[2]>> ELSE NaN

(* Binary floating point. A value that lies a little below a whole number is held as
   [top, d, e], meaning top - d / 2^e with d >= 0: the doubles next to f_max have
   numerators that do not fit a 32-bit integer, their distance from f_max does. *)
RECURSIVE Log2Floor(_)
Log2Floor(n) == IF n < 2 THEN 0 ELSE 1 + Log2Floor(n \div 2)

\* lowest terms: d odd and below 2^e, or d = 0 and e = 0
RECURSIVE Dy(_, _, _)
Dy(top, d, e) ==
    IF d = 0 THEN [top |-> top, d |-> 0, e |-> 0]
    ELSE IF e = 0 THEN [top |-> top - d, d |-> 0, e |-> 0]
    ELSE IF d % 2 = 0 THEN Dy(top, d \div 2, e - 1)
    ELSE IF e <= 30 /\ d >= 2^e THEN [top |-> top - (d \div 2^e), d |-> d % 2^e, e |-> e]
    ELSE [top |-> top, d |-> d, e |-> e]

\* a rational whose denominator is a power of two, as such a value, and back
RatToDy(x) ==
    CASE x[2] = 2^Log2Floor(x[2]) ->
            LET top == (x[1] + x[2] - 1) \div x[2]
            IN Dy(top, top * x[2] - x[1], Log2Floor(x[2]))

DyToRat(v) == Rat(v.top * 2^v.e - v.d, 2^v.e)

\* IEEE 754 round-to-nearest, ties to even, to a significand of p bits, of a value that is
\* 0, a whole number below 2^24, or at least 1: the values of [2^k, 2^(k+1)) are the
\* multiples of 2^(k - p + 1)
RoundBinary(v, p) ==
    IF v.d = 0 THEN v
    ELSE CASE v.top - 1 >= 1 ->
                 LET g == p - 1 - Log2Floor(v.top - 1)
                     sh == v.e - g
                 IN IF sh <= 0 THEN v
                    ELSE IF sh > 30 THEN Dy(v.top, 0, 0)
                    ELSE LET q == v.d \div 2^sh
                             rem == v.d % 2^sh
                             half == 2^(sh - 1)
                         IN IF rem < half THEN Dy(v.top, q, g)
                            ELSE IF rem > half THEN Dy(v.top, q + 1, g)
                            ELSE IF q % 2 = 0 THEN Dy(v.top, q, g)
                            ELSE Dy(v.top, q + 1, g)
           [] v.top - 1 = 0 /\ v.e <= p -> v

\* a float32 held as [m, e], meaning m / 2^e, in lowest terms
RECURSIVE Bin(_, _)
Bin(m, e) == IF m = 0 THEN [m |-> 0, e |-> 0]
             ELSE IF m % 2 = 0 /\ e > 0 THEN Bin(m \div 2, e - 1)
             ELSE [m |-> m, e |-> e]

BinToRat(b) == Rat(b.m, 2^b.e)

\* long division of q + r/d, doubled until the quotient has 24 bits; g counts the doublings
RECURSIVE Grow(_, _, _, _)
Grow(q, r, d, g) ==
    IF q >= 2^23 THEN [q |-> q, r |-> r, g |-> g]
    ELSE Grow(2 * q + (IF 2 * r >= d THEN 1 ELSE 0), (2 * r) % d, d, g + 1)

\* np.array(..., dtype=np.float32) and float32 arithmetic: the float32 nearest to the
\* rational x, ties to even (|x| below 2^24; underflow and subnormals are out of reach)
NearestFloat32(x) ==
    IF x[1] = 0 THEN Bin(0, 0)
    ELSE LET n == Abs(x[1])
             st == Grow(n \div x[2], n % x[2], x[2], 0)
             up == 2 * st.r > x[2] \/ (2 * st.r = x[2] /\ st.q % 2 = 1)
             q == IF up THEN st.q + 1 ELSE st.q
         IN Bin(IF x[1] < 0 THEN -q ELSE q, st.g)

\* a Python float (binary64) and a torch.float32
Float64(v) == RoundBinary(v, 53)

Float32(v) == RoundBinary(v, 24)

RECURSIVE SumTo(_, _)
SumTo(f, n) == IF n = 0 THEN <<0, 1>> ELSE RatAdd(SumTo(f, n - 1), f[n])

\* tensor.mean(0) over the frame axis
Mean(f) == RatDiv(SumTo(f, MFrames), <<MFrames, 1>>)

----------------------------------------------------------------------------
(* train.py: module constants *)

EPOCHS_COUNT == 1

F_ERROR_WEIGHTS == << <<1, 10>>, <<1, 1>>, <<10, 1>> >>
S_ERROR_WEIGHTS == << <<1, 10>>, <<1, 1>>, <<10, 1>> >>

CALIB_LRS == << <<1, 100>>, <<1, 1000>>, <<1, 10000>> >>
SFM_LRS == << <<1, 1000>>, <<1, 10000>>, <<1, 100000>> >>

\* hparam_values, in dict order
hparam_values == <<F_ERROR_WEIGHTS, S_ERROR_WEIGHTS, CALIB_LRS, SFM_LRS>>

RECURSIVE ProductSize(_, _)
ProductSize(lists, n) == IF n = 0 THEN 1 ELSE Len(lists[n]) * ProductSize(lists, n - 1)

\* number of elements after position k of the lists (the stride of position k)
RECURSIVE Stride(_, _)
Stride(lists, k) ==
    IF k = Len(lists) THEN 1 ELSE Len(lists[k + 1]) * Stride(lists, k + 1)

\* itertools.product(*lists): element number n (from 0), last list varying fastest
product(lists, n) ==
    [k \in 1..Len(lists) |-> lists[k][((n \div Stride(lists, k)) % Len(lists[k])) + 1]]

----------------------------------------------------------------------------
(* Values the opaque collaborators can return *)

\* ground-truth focal lengths a synthetic batch can carry
FGtValues == {<<300, 1>>, <<450, 1>>}

\* focal lengths the calibration net can predict for a frame
FocalValues == {<<300, 1>>, <<600, 1>>}

\* finite reprojection errors
SErrorValues == {<<1, 1>>, <<5, 2>>}

Orientations == {"portrait", "landscape"}

DataLoaderTypes == {"legacy", "wet", "other"}

----------------------------------------------------------------------------
(* wet_test.py and wet_dataloader.py: the landmark tables *)

\* wet_test.py, lines 15-90: the Face Blaze index (from 0) of each dlib landmark
DLIB_2_FACE_BLAZE_MAPPING ==
    <<
     127, 234, 93, 132, 58, 172, 150, 176, 152, 400, 379, 397, 288, 361, 323, 454, 356,
     70, 63, 105, 66, 107, 336, 296, 334, 293, 300, 168, 197, 5, 1, 98, 97, 2, 326, 327,
     33, 160, 158, 133, 153, 144, 362, 385, 387, 263, 373, 380, 61, 40, 37, 0, 267, 270,
     291, 321, 314, 17, 84, 91, 78, 82, 13, 312, 308, 317, 14, 87
    >>

\* wet_dataloader.py, lines 33-503: the 468 Face Blaze landmarks in the face coordinate
\* system, in whole millimetres (the source gives metres with eight decimals)
FACE_BLAZE_3D_LANDMARKS_FCS ==
    <<
     <<0, 23, 15>>, <<0, 0, 0>>, <<0, 10, 14>>, <<-5, -21, 8>>, <<0, -7, -1>>,
     <<0, -15, 2>>, <<0, -36, 17>>, <<-43, -37, 42>>, <<0, -51, 22>>, <<0, -60, 21>>,
     <<0, -94, 30>>, <<0, 26, 16>>, <<0, 28, 19>>, <<0, 29, 23>>, <<0, 34, 21>>,
     <<0, 36, 19>>, <<0, 39, 19>>, <<0, 42, 19>>, <<0, 50, 24>>, <<0, 4, 4>>,
     <<-4, 3, 10>>, <<-71, -66, 74>>, <<-26, -32, 36>>, <<-32, -31, 37>>,
     <<-38, -32, 38>>, <<-45, -35, 43>>, <<-22, -33, 36>>, <<-32, -44, 34>>,
     <<-27, -43, 34>>, <<-37, -43, 35>>, <<-42, -42, 38>>, <<-51, -31, 47>>,
     <<-23, 63, 31>>, <<-44, -38, 43>>, <<-72, -34, 74>>, <<-58, -35, 53>>,
     <<-28, -4, 30>>, <<-7, 22, 16>>, <<-6, 28, 20>>, <<-14, 24, 20>>, <<-19, 27, 24>>,
     <<-11, 28, 23>>, <<-16, 30, 26>>, <<-27, 39, 33>>, <<-4, 0, 1>>, <<-5, -7, 0>>,
     <<-53, -50, 41>>, <<-17, -21, 29>>, <<-16, -2, 17>>, <<-17, -5, 19>>,
     <<-48, -4, 39>>, <<-5, -14, 4>>, <<-37, -56, 29>>, <<-46, -54, 34>>,
     <<-63, -77, 60>>, <<-12, -53, 24>>, <<-22, -42, 35>>, <<-31, 32, 34>>,
     <<-67, 37, 92>>, <<-12, 2, 17>>, <<-7, 5, 16>>, <<-25, 32, 32>>, <<-22, 32, 33>>,
     <<-50, -59, 37>>, <<-16, 1, 20>>, <<-26, -57, 26>>, <<-28, -62, 25>>,
     <<-35, -91, 37>>, <<-56, -68, 48>>, <<-31, -77, 29>>, <<-57, -54, 46>>,
     <<-64, -59, 59>>, <<-7, 26, 17>>, <<-13, 27, 21>>, <<-17, 28, 25>>, <<-10, 3, 18>>,
     <<-23, 32, 32>>, <<-21, 34, 30>>, <<-22, 31, 34>>, <<-9, -1, 10>>, <<-15, 29, 29>>,
     <<-10, 29, 25>>, <<-5, 29, 23>>, <<-8, 50, 25>>, <<-7, 42, 20>>, <<-7, 38, 20>>,
     <<-6, 36, 20>>, <<-6, 34, 21>>, <<-15, 33, 27>>, <<-16, 33, 27>>, <<-17, 35, 26>>,
     <<-18, 37, 27>>, <<-24, 20, 26>>, <<-75, -1, 99>>, <<0, 6, 9>>, <<-18, 33, 31>>,
     <<-19, 33, 30>>, <<-6, 9, 16>>, <<-14, 6, 22>>, <<-7, 7, 16>>, <<-23, -17, 32>>,
     <<-33, -12, 34>>, <<-17, -2, 22>>, <<-51, -86, 48>>, <<-45, -74, 38>>,
     <<-40, -62, 30>>, <<-22, 43, 30>>, <<-14, -61, 22>>, <<-16, -77, 26>>,
     <<-19, -94, 32>>, <<-42, -34, 41>>, <<-57, -25, 50>>, <<-19, -35, 36>>,
     <<-50, -42, 44>>, <<-13, -25, 26>>, <<-13, -5, 11>>, <<-65, -21, 58>>,
     <<-53, -21, 45>>, <<-44, -18, 40>>, <<-33, -20, 36>>, <<-24, -23, 34>>,
     <<-18, -26, 33>>, <<-6, -34, 19>>, <<-63, -6, 56>>, <<-56, -43, 48>>, <<-2, 3, 4>>,
     <<-16, -15, 26>>, <<-77, -35, 95>>, <<-14, -30, 30>>, <<-18, -1, 26>>,
     <<-47, -38, 44>>, <<-13, -8, 14>>, <<-73, 18, 97>>, <<-19, -37, 37>>,
     <<-9, -12, 8>>, <<-50, 50, 56>>, <<-51, 61, 68>>, <<-72, -3, 75>>, <<-58, 41, 66>>,
     <<-68, -48, 68>>, <<-24, 71, 34>>, <<-2, 6, 9>>, <<-21, -10, 29>>,
     <<-64, -34, 59>>, <<-37, -35, 38>>, <<-32, -34, 37>>, <<-22, 35, 30>>,
     <<-62, 8, 58>>, <<-13, 82, 34>>, <<-32, 74, 47>>, <<-41, 69, 56>>, <<0, -77, 24>>,
     <<0, 83, 32>>, <<-27, -34, 37>>, <<-23, -35, 38>>, <<-20, -36, 38>>,
     <<-61, -45, 54>>, <<-23, -40, 37>>, <<-27, -41, 36>>, <<-32, -41, 36>>,
     <<-37, -41, 38>>, <<-40, -40, 40>>, <<-76, -52, 85>>, <<-40, -36, 40>>,
     <<0, 14, 15>>, <<-18, 16, 23>>, <<-12, 1, 15>>, <<-7, 14, 17>>, <<0, -44, 22>>,
     <<-41, 59, 48>>, <<-33, 65, 41>>, <<-13, 75, 28>>, <<-59, 51, 81>>,
     <<-20, -39, 37>>, <<-9, -24, 17>>, <<0, 76, 26>>, <<-23, 78, 39>>, <<-70, 13, 76>>,
     <<-11, 33, 24>>, <<-12, 35, 23>>, <<-13, 37, 22>>, <<-13, 40, 23>>,
     <<-15, 47, 27>>, <<-20, 31, 30>>, <<-21, 30, 29>>, <<-23, 29, 29>>,
     <<-29, 25, 30>>, <<-53, 11, 46>>, <<-9, -30, 23>>, <<-13, -42, 32>>,
     <<-18, -40, 36>>, <<-18, 30, 32>>, <<-54, 29, 54>>, <<-8, -43, 26>>,
     <<-19, 55, 30>>, <<0, -22, 7>>, <<-5, -27, 13>>, <<0, -29, 12>>, <<-12, -14, 18>>,
     <<0, 68, 23>>, <<0, 59, 23>>, <<-10, 58, 25>>, <<-33, 43, 37>>, <<-23, 4, 29>>,
     <<-27, 50, 34>>, <<-38, 4, 33>>, <<-30, 11, 30>>, <<-44, 16, 38>>, <<-12, 67, 25>>,
     <<-15, -10, 23>>, <<-39, 49, 42>>, <<-31, 57, 37>>, <<-37, 34, 37>>,
     <<-61, 21, 60>>, <<-46, 36, 45>>, <<-66, 28, 74>>, <<-35, 21, 33>>,
     <<-13, -19, 22>>, <<-11, -2, 9>>, <<-14, 0, 16>>, <<-9, -6, 5>>, <<-18, -47, 31>>,
     <<-26, -48, 31>>, <<-34, -48, 32>>, <<-41, -48, 34>>, <<-46, -46, 38>>,
     <<-52, -37, 48>>, <<-73, -19, 75>>, <<-47, -28, 44>>, <<-41, -26, 40>>,
     <<-33, -26, 37>>, <<-25, -27, 36>>, <<-20, -30, 35>>, <<-16, -32, 34>>,
     <<-77, -18, 99>>, <<-14, 2, 18>>, <<-9, -18, 12>>, <<-8, -2, 4>>, <<-5, 2, 7>>,
     <<-7, -1, 7>>, <<-12, 5, 20>>, <<-4, 3, 5>>, <<-3, 5, 10>>, <<-16, -37, 36>>,
     <<-13, -36, 33>>, <<-10, -35, 29>>, <<-43, -39, 42>>, <<-45, -40, 41>>,
     <<5, -21, 8>>, <<43, -37, 42>>, <<4, 3, 10>>, <<71, -66, 74>>, <<26, -32, 36>>,
     <<32, -31, 37>>, <<38, -32, 38>>, <<45, -35, 43>>, <<22, -33, 36>>,
     <<32, -44, 34>>, <<27, -43, 34>>, <<37, -43, 35>>, <<42, -42, 38>>,
     <<51, -31, 47>>, <<23, 63, 31>>, <<44, -38, 43>>, <<72, -34, 74>>, <<58, -35, 53>>,
     <<28, -4, 30>>, <<7, 22, 16>>, <<6, 28, 20>>, <<14, 24, 20>>, <<19, 27, 24>>,
     <<11, 28, 23>>, <<16, 30, 26>>, <<27, 39, 33>>, <<4, 0, 1>>, <<5, -7, 0>>,
     <<53, -50, 41>>, <<17, -21, 29>>, <<16, -2, 17>>, <<17, -5, 19>>, <<48, -4, 39>>,
     <<5, -14, 4>>, <<37, -56, 29>>, <<46, -54, 34>>, <<63, -77, 60>>, <<12, -53, 24>>,
     <<22, -42, 35>>, <<31, 32, 34>>, <<67, 37, 92>>, <<12, 2, 17>>, <<7, 5, 16>>,
     <<25, 32, 32>>, <<22, 32, 33>>, <<50, -59, 37>>, <<16, 1, 20>>, <<26, -57, 26>>,
     <<28, -62, 25>>, <<35, -91, 37>>, <<56, -68, 48>>, <<31, -77, 29>>,
     <<57, -54, 46>>, <<64, -59, 59>>, <<7, 26, 17>>, <<13, 27, 21>>, <<17, 28, 25>>,
     <<10, 3, 18>>, <<23, 32, 32>>, <<21, 34, 30>>, <<22, 31, 34>>, <<9, -1, 10>>,
     <<15, 29, 29>>, <<10, 29, 25>>, <<5, 29, 23>>, <<8, 50, 25>>, <<7, 42, 20>>,
     <<7, 38, 20>>, <<6, 36, 20>>, <<6, 34, 21>>, <<15, 33, 27>>, <<16, 33, 27>>,
     <<17, 35, 26>>, <<18, 37, 27>>, <<24, 20, 26>>, <<75, -1, 99>>, <<18, 33, 31>>,
     <<19, 33, 30>>, <<6, 9, 16>>, <<14, 6, 22>>, <<7, 7, 16>>, <<23, -17, 32>>,
     <<33, -12, 34>>, <<17, -2, 22>>, <<51, -86, 48>>, <<45, -74, 38>>, <<40, -62, 30>>,
     <<22, 43, 30>>, <<14, -61, 22>>, <<16, -77, 26>>, <<19, -94, 32>>, <<42, -34, 41>>,
     <<57, -25, 50>>, <<19, -35, 36>>, <<50, -42, 44>>, <<13, -25, 26>>, <<13, -5, 11>>,
     <<65, -21, 58>>, <<53, -21, 45>>, <<44, -18, 40>>, <<33, -20, 36>>,
     <<24, -23, 34>>, <<18, -26, 33>>, <<6, -34, 19>>, <<63, -6, 56>>, <<56, -43, 48>>,
     <<2, 3, 4>>, <<16, -15, 26>>, <<77, -35, 95>>, <<14, -30, 30>>, <<18, -1, 26>>,
     <<47, -38, 44>>, <<13, -8, 14>>, <<73, 18, 97>>, <<19, -37, 37>>, <<9, -12, 8>>,
     <<50, 50, 56>>, <<51, 61, 68>>, <<72, -3, 75>>, <<58, 41, 66>>, <<68, -48, 68>>,
     <<24, 71, 34>>, <<2, 6, 9>>, <<21, -10, 29>>, <<64, -34, 59>>, <<37, -35, 38>>,
     <<32, -34, 37>>, <<22, 35, 30>>, <<62, 8, 58>>, <<13, 82, 34>>, <<32, 74, 47>>,
     <<41, 69, 56>>, <<27, -34, 37>>, <<23, -35, 38>>, <<20, -36, 38>>, <<61, -45, 54>>,
     <<23, -40, 37>>, <<27, -41, 36>>, <<32, -41, 36>>, <<37, -41, 38>>,
     <<40, -40, 40>>, <<76, -52, 85>>, <<40, -36, 40>>, <<18, 16, 23>>, <<12, 1, 15>>,
     <<7, 14, 17>>, <<41, 59, 48>>, <<33, 65, 41>>, <<13, 75, 28>>, <<59, 51, 81>>,
     <<20, -39, 37>>, <<9, -24, 17>>, <<23, 78, 39>>, <<70, 13, 76>>, <<11, 33, 24>>,
     <<12, 35, 23>>, <<13, 37, 22>>, <<13, 40, 23>>, <<15, 47, 27>>, <<20, 31, 30>>,
     <<21, 30, 29>>, <<23, 29, 29>>, <<29, 25, 30>>, <<53, 11, 46>>, <<9, -30, 23>>,
     <<13, -42, 32>>, <<18, -40, 36>>, <<18, 30, 32>>, <<54, 29, 54>>, <<8, -43, 26>>,
     <<19, 55, 30>>, <<5, -27, 13>>, <<12, -14, 18>>, <<10, 58, 25>>, <<33, 43, 37>>,
     <<23, 4, 29>>, <<27, 50, 34>>, <<38, 4, 33>>, <<30, 11, 30>>, <<44, 16, 38>>,
     <<12, 67, 25>>, <<15, -10, 23>>, <<39, 49, 42>>, <<31, 57, 37>>, <<37, 34, 37>>,
     <<61, 21, 60>>, <<46, 36, 45>>, <<66, 28, 74>>, <<35, 21, 33>>, <<13, -19, 22>>,
     <<11, -2, 9>>, <<14, 0, 16>>, <<9, -6, 5>>, <<18, -47, 31>>, <<26, -48, 31>>,
     <<34, -48, 32>>, <<41, -48, 34>>, <<46, -46, 38>>, <<52, -37, 48>>,
     <<73, -19, 75>>, <<47, -28, 44>>, <<41, -26, 40>>, <<33, -26, 37>>,
     <<25, -27, 36>>, <<20, -30, 35>>, <<16, -32, 34>>, <<77, -18, 99>>, <<14, 2, 18>>,
     <<9, -18, 12>>, <<8, -2, 4>>, <<5, 2, 7>>, <<7, -1, 7>>, <<12, 5, 20>>,
     <<4, 3, 5>>, <<3, 5, 10>>, <<16, -37, 36>>, <<13, -36, 33>>, <<10, -35, 29>>,
     <<43, -39, 42>>, <<45, -40, 41>>
    >>

----------------------------------------------------------------------------
(* wet_dataloader.WetSyntheticLoader: construction and the projection of a pose *)
(* Lengths are in millimetres, angles in radians, pixel coordinates exact.    *)

\* _face_blaze_2_dlib_3d, lines 559-581: the dlib subset of a Face Blaze table (the two
\* shape assertions hold for every table of 468 rows; in whole millimetres the float32
\* values of line 573 are the table's)
face_blaze_2_dlib_3d(fb_landmarks_3d) ==
    [k \in 1..Len(DLIB_2_FACE_BLAZE_MAPPING) |->
        fb_landmarks_3d[DLIB_2_FACE_BLAZE_MAPPING[k] + 1]]

\* an array of the given shape
HasShape(arr, rows, cols) ==
    Len(arr) = rows /\ \A j \in 1..Len(arr) : Len(arr[j]) = cols

\* faulty variant: every landmark is taken from the row after its own
ExtractDlib_NextRow(arr) ==
    [k \in 1..Len(DLIB_2_FACE_BLAZE_MAPPING) |->
        [c \in 1..Len(arr[DLIB_2_FACE_BLAZE_MAPPING[k] + 2]) |->
            NearestFloat32(arr[DLIB_2_FACE_BLAZE_MAPPING[k] + 2][c])]]

\* wet_test.py:170 and wet_dataloader.py:573:
\* np.array([fb_landmarks[i] for i in DLIB_2_FACE_BLAZE_MAPPING], dtype=np.float32),
\* a new array of float32 values
ExtractDlib(arr) ==
    [k \in 1..Len(DLIB_2_FACE_BLAZE_MAPPING) |->
        [c \in 1..Len(arr[DLIB_2_FACE_BLAZE_MAPPING[k] + 1]) |->
            NearestFloat32(arr[DLIB_2_FACE_BLAZE_MAPPING[k] + 1][c])]]

\* the two assertions before the extraction, and the extraction: what is raised, and
\* the array built
Extraction(arr, rows, cols) ==
    IF ~HasShape(arr, rows, cols) THEN [exception |-> "AssertionError", value |-> <<>>]
    ELSE IF Len(DLIB_2_FACE_BLAZE_MAPPING) # 68
    THEN [exception |-> "AssertionError", value |-> <<>>]
    ELSE IF \E k \in 1..Len(DLIB_2_FACE_BLAZE_MAPPING) :
               DLIB_2_FACE_BLAZE_MAPPING[k] \notin 0..(Len(arr) - 1)
    THEN [exception |-> "IndexError", value |-> <<>>]
    ELSE [exception |-> "none", value |-> ExtractDlib(arr)]

\* faulty variant: both coordinates are mirrored in the width
FlipCoordinates_WidthTwice(dlib, w, h) ==
    [k \in 1..Len(dlib) |->
        <<NearestFloat32(RatSub(<<w, 1>>, BinToRat(dlib[k][1]))),
          NearestFloat32(RatSub(<<w, 1>>, BinToRat(dlib[k][2])))>>]

\* wet_test.py:173-174: dlib_landmarks[:, 0] = width - dlib_landmarks[:, 0] and
\* dlib_landmarks[:, 1] = height - dlib_landmarks[:, 1], in float32
FlipCoordinates(dlib, w, h) ==
    [k \in 1..Len(dlib) |->
        <<NearestFloat32(RatSub(<<w, 1>>, BinToRat(dlib[k][1]))),
          NearestFloat32(RatSub(<<h, 1>>, BinToRat(dlib[k][2])))>>]

\* wet_test.py:152-178
face_blaze_2_dlib_2d(arr, w, h, flip) ==
    LET extracted == Extraction(arr, 478, 2)
    IN IF extracted.exception # "none" THEN extracted
       ELSE LET out == IF flip THEN FlipCoordinates(extracted.value, w, h)
                       ELSE extracted.value
            IN IF HasShape(out, 68, 2) THEN [exception |-> "none", value |-> out]
               ELSE [exception |-> "AssertionError", value |-> <<>>]

\* wet_dataloader.py:558-581, with the float32 values of line 573
face_blaze_2_dlib_3d_float32(arr) ==
    LET extracted == Extraction(arr, 468, 3)
    IN IF extracted.exception # "none" THEN extracted
       ELSE IF HasShape(extracted.value, 68, 3) THEN extracted
       ELSE [exception |-> "AssertionError", value |-> <<>>]

\* 2D Face Blaze landmarks of a frame, float32 values: on whole pixels, between pixels,
\* and an array one row short
WholePixels == [j \in 1..478 |-> << <<(7 * j) % 640, 1>>, <<(11 * j) % 480, 1>> >>]

SubPixels ==
    [j \in 1..478 |->
        <<Rat((64 + (j % 64)) * 2^17 + 1, 2^17), Rat((100 + (j % 100)) * 4 + 1, 4)>>]

Landmarks2D == {WholePixels, SubPixels, [j \in 1..477 |-> WholePixels[j]]}

FrameSizes == {<<640, 480>>, <<480, 640>>}

\* the loader's float64 table, in metres (lines 32-503), and a table one row short
TableInMetres ==
    [j \in 1..468 |-> [c \in 1..3 |-> Rat(FACE_BLAZE_3D_LANDMARKS_FCS[j][c], 1000)]]

Tables3D == {TableInMetres, [j \in 1..467 |-> TableInMetres[j]]}

\* faulty variant: the landmarks come out in reverse order
permute021_Reversed(t) ==
    [a \in 1..Len(t) |-> [b \in 1..Len(t[a][1]) |-> [c \in 1..Len(t[a]) |->
        t[a][Len(t[a]) + 1 - c][b]]]]

\* tensor.permute(0, 2, 1) of a tensor of three axes (wet_dataloader.py:553,
\* train.py:129): the two last axes change places
permute021(t) ==
    [a \in 1..Len(t) |-> [b \in 1..Len(t[a][1]) |-> [c \in 1..Len(t[a]) |-> t[a][c][b]]]]

\* np.swapaxes(keypoints, 1, 2), wet_test.py:227
swapaxes12(arr) ==
    [a \in 1..Len(arr) |-> [b \in 1..Len(arr[a][1]) |-> [c \in 1..Len(arr[a]) |->
        arr[a][c][b]]]]

\* torch.from_numpy(array).float(), wet_dataloader.py:553: every element as a float32
FloatTensor(arr) ==
    [a \in 1..Len(arr) |-> [b \in 1..Len(arr[a]) |-> [c \in 1..Len(arr[a][b]) |->
        NearestFloat32(arr[a][b][c])]]]

\* tensor.float() of a float32 tensor, train.py:107
Float(t) ==
    [a \in 1..Len(t) |-> [b \in 1..Len(t[a]) |-> [c \in 1..Len(t[a][b]) |->
        NearestFloat32(BinToRat(t[a][b][c]))]]]

\* noisy batches of shape (M, 68, 2): one of float32 values, one of values that are not
NoisyBatches ==
    {[m \in 1..MFrames |-> [k \in 1..68 |->
         <<Rat(1000 * m + 10 * k + 1, den), Rat(1000 * m + 10 * k + 2, den)>>]] :
       den \in {3, 4}}

\* convert_keypoints_list_to_tensor, lines 208-238, on the values of a list of arrays
\* that all have one shape: what is raised, and the tensor returned
convert_keypoints_values(list) ==
    IF \E n \in 1..Len(list) : Len(list[n]) # 68
    THEN [exception |-> "AssertionError", value |-> <<>>]
    ELSE IF Len(list) = 0 THEN [exception |-> "AxisError", value |-> <<>>]
    ELSE LET swapped == swapaxes12(list)
         IN IF \A n \in 1..Len(swapped) :
                  Len(swapped[n]) = 2 /\ \A c \in 1..2 : Len(swapped[n][c]) = 68
            THEN [exception |-> "none", value |-> swapped]
            ELSE [exception |-> "AssertionError", value |-> <<>>]

\* lists of landmark arrays: shape (68, 2) and float32 values, shape (68, 3), none
KeypointLists ==
    {[n \in 1..MFrames |-> [k \in 1..68 |-> << <<100 * n + k, 1>>, <<200 * n + 3 * k, 2>> >>]],
     [n \in 1..MFrames |-> [k \in 1..68 |-> << <<n, 1>>, <<k, 1>>, <<0, 1>> >>]],
     <<>>}

\* the keyword parameters of WetSyntheticLoader.__init__ (line 17: self alone)
WetSyntheticLoader_parameters == {}

\* WetSyntheticLoader(): the object __init__ builds, lines 17-507
WetSyntheticLoader ==
    [kind |-> "wet", M |-> MFrames, N |-> 68,
     camera_frame_width_pixels |-> 480, camera_frame_height_pixels |-> 640,
     f_min |-> 300, f_max |-> 600,
     FACE_BLAZE_3D_LANDMARKS_FCS |-> FACE_BLAZE_3D_LANDMARKS_FCS,
     DLIB_LANDMARKS_3D_FCS |-> face_blaze_2_dlib_3d(FACE_BLAZE_3D_LANDMARKS_FCS)]

\* values random.random() can return: the multiples of 2^-53 with 0 <= r < 1
RandomValues == {<<0, 1>>, <<1, 2>>, <<7, 8>>}

\* more of them, the last three nearer and nearer to 1: 1 - 1/2^10, 1 - 1/2^25 and
\* the largest, 1 - 1/2^53
RandomDoubles ==
    {RatToDy(r) : r \in RandomValues} \cup {Dy(1, 1, 10), Dy(1, 1, 25), Dy(1, 1, 53)}

\* faulty variant: the width of the range is taken to be f_max
FocalLength_RangeFromZero(f_min, f_max, r) ==
    LET width == f_max
        scaled == Float64(Dy(width * r.top, width * r.d, r.e))
    IN Float64([top |-> f_min + scaled.top, d |-> scaled.d, e |-> scaled.e])

\* line 527: f = self.f_min + random.random() * (self.f_max - self.f_min), each
\* operation rounded to a Python float; f_min and f_max are whole numbers
FocalLength(f_min, f_max, r) ==
    LET width == f_max - f_min
        scaled == Float64(Dy(width * r.top, width * r.d, r.e))
    IN Float64([top |-> f_min + scaled.top, d |-> scaled.d, e |-> scaled.e])

\* triples random.uniform(0.9, 1.1) can return for scale_x, scale_y, scale_z
ScaleValues ==
    {<< <<1, 1>>, <<1, 1>>, <<1, 1>> >>,
     << <<11, 10>>, <<9, 10>>, <<11, 10>> >>}

\* head poses the twelve random.uniform calls of lines 753-768 can return: t_x in
\* [-100, 100], t_y in [-300, 300], t_z in [300, 500]; the three angles in [0, 0.5],
\* drawn here at the lower end, where sine and cosine are exact. The last pose puts
\* landmarks 22 and 23 on the upper border (y = 0) for f = 300 and scale 1, and every
\* other landmark inside the frame
Poses ==
    {[t |-> << <<0, 1>>, <<0, 1>>, <<400, 1>> >>, rot |-> << <<0, 1>>, <<0, 1>>, <<0, 1>> >>],
     [t |-> << <<0, 1>>, <<-4237, 15>>, <<300, 1>> >>, rot |-> << <<0, 1>>, <<0, 1>>, <<0, 1>> >>],
     [t |-> << <<100, 1>>, <<300, 1>>, <<500, 1>> >>, rot |-> << <<0, 1>>, <<0, 1>>, <<0, 1>> >>],
     [t |-> << <<-100, 1>>, <<-300, 1>>, <<300, 1>> >>, rot |-> << <<0, 1>>, <<0, 1>>, <<0, 1>> >>]}

\* amplitudes of the noise array np.random.randn(M, N, 2) in the model
NoiseAmplitudes == {<<0, 1>>, <<1, 2>>}

Cos(a) == IF a = <<0, 1>> THEN <<1, 1>> ELSE NaN
Sin(a) == IF a = <<0, 1>> THEN <<0, 1>> ELSE NaN

RatNeg(a) == RatSub(<<0, 1>>, a)

\* a < b; a comparison with a non-finite number is false
RatLess(a, b) == IsFinite(a) /\ IsFinite(b) /\ a[1] * b[2] < b[1] * a[2]

\* a * b and a + b, with the products and sums by 0 and 1 taken directly
Times(a, b) ==
    IF IsFinite(a) /\ IsFinite(b)
    THEN IF a[1] = 0 \/ b[1] = 0 THEN <<0, 1>>
         ELSE IF a = <<1, 1>> THEN b
         ELSE IF b = <<1, 1>> THEN a
         ELSE RatMul(a, b)
    ELSE NaN

Plus(a, b) ==
    IF IsFinite(a) /\ IsFinite(b)
    THEN IF a[1] = 0 THEN b ELSE IF b[1] = 0 THEN a ELSE RatAdd(a, b)
    ELSE NaN

\* A @ B for 3x3 matrices
MatMul(A, B) ==
    [r \in 1..3 |-> [c \in 1..3 |->
        Plus(Plus(Times(A[r][1], B[1][c]), Times(A[r][2], B[2][c])),
             Times(A[r][3], B[3][c]))]]

\* A @ v for a 3x3 matrix and a 3-vector
MatVec(A, v) ==
    [r \in 1..3 |->
        Plus(Plus(Times(A[r][1], v[1]), Times(A[r][2], v[2])), Times(A[r][3], v[3]))]

\* lines 640-659: R_x @ R_y @ R_z
RotationMatrix(rot) ==
    LET Zero == <<0, 1>>
        One == <<1, 1>>
        R_x == << <<One, Zero, Zero>>,
                  <<Zero, Cos(rot[1]), RatNeg(Sin(rot[1]))>>,
                  <<Zero, Sin(rot[1]), Cos(rot[1])>> >>
        R_y == << <<Cos(rot[2]), Zero, Sin(rot[2])>>,
                  <<Zero, One, Zero>>,
                  <<RatNeg(Sin(rot[2])), Zero, Cos(rot[2])>> >>
        R_z == << <<Cos(rot[3]), RatNeg(Sin(rot[3])), Zero>>,
                  <<Sin(rot[3]), Cos(rot[3]), Zero>>,
                  <<Zero, Zero, One>> >>
    IN MatMul(MatMul(R_x, R_y), R_z)

\* cv2.projectPoints without distortion: the pixel of one point of the scaled table
ProjectPoint(p, R, t, foc, w, h) ==
    LET q == MatVec(R, p)
        x == Plus(q[1], t[1])
        y == Plus(q[2], t[2])
        z == Plus(q[3], t[3])
    IN <<Plus(Times(foc, RatDiv(x, z)), Rat(w, 2)),
         Plus(Times(foc, RatDiv(y, z)), Rat(h, 2))>>

\* _generate_landmark_projection, lines 584-677: the camera matrix has the principal
\* point (w / 2, h / 2); the table is scaled into a new array and projected
generate_landmark_projection(face_landmarks_3d_fcs, w, h, foc, pose, sc) ==
    LET R == RotationMatrix(pose.rot)
        scaled_3d_landmarks ==
            [n \in 1..Len(face_landmarks_3d_fcs) |->
                [c \in 1..3 |-> Times(sc[c], <<face_landmarks_3d_fcs[n][c], 1>>)]]
    IN [n \in 1..Len(face_landmarks_3d_fcs) |->
           ProjectPoint(scaled_3d_landmarks[n], R, pose.t, foc, w, h)]

\* faulty variant: a landmark on the border counts as inside
ValidPose_BorderIncluded(projection, w, h) ==
    \A n \in 1..Len(projection) :
        /\ ~RatLess(projection[n][1], <<0, 1>>) /\ ~RatLess(<<w, 1>>, projection[n][1])
        /\ ~RatLess(projection[n][2], <<0, 1>>) /\ ~RatLess(<<h, 1>>, projection[n][2])
        /\ IsFinite(projection[n][1]) /\ IsFinite(projection[n][2])

\* lines 792-793: negated, all landmarks lie strictly inside the frame
ValidPose(projection, w, h) ==
    \A n \in 1..Len(projection) :
        /\ RatLess(<<0, 1>>, projection[n][1]) /\ RatLess(projection[n][1], <<w, 1>>)
        /\ RatLess(<<0, 1>>, projection[n][2]) /\ RatLess(projection[n][2], <<h, 1>>)

\* faulty variant: the step is applied once too often, so the last frame lies beyond b
Linspace_Overshoots(a, b, num, k) ==
    IF num = 1 THEN a
    ELSE RatAdd(a, RatDiv(RatMul(<<k + 1, 1>>, RatSub(b, a)), <<num - 1, 1>>))

\* np.linspace(a, b, num)[k], k from 0
Linspace(a, b, num, k) ==
    IF num = 1 THEN a ELSE RatAdd(a, RatDiv(RatMul(<<k, 1>>, RatSub(b, a)), <<num - 1, 1>>))

\* lines 805-811 and 819: the pose of frame k (from 0) on the way from p to q
TrajectoryPose(p, q, num, k) ==
    [t |-> [c \in 1..3 |-> Linspace(p.t[c], q.t[c], num, k)],
     rot |-> [c \in 1..3 |-> Linspace(p.rot[c], q.rot[c], num, k)]]

\* the focal lengths line 527 can draw, and the poses of the frames of a trajectory
FocalDraws ==
    {DyToRat(FocalLength(WetSyntheticLoader.f_min, WetSyntheticLoader.f_max, RatToDy(r))) :
        r \in RandomValues}

TrajectoryPoses ==
    {TrajectoryPose(p, q, MFrames, k) : p \in Poses, q \in Poses, k \in 0..(MFrames - 1)}

\* _generate_landmark_projection on the table and the frame of the source, for every
\* draw: evaluated once and looked up afterwards
ProjectionTable ==
    [foc \in FocalDraws |-> [sc \in ScaleValues |-> [pose \in TrajectoryPoses |->
        generate_landmark_projection(
            WetSyntheticLoader.DLIB_LANDMARKS_3D_FCS,
            WetSyntheticLoader.camera_frame_width_pixels,
            WetSyntheticLoader.camera_frame_height_pixels, foc, pose, sc)]]]

\* a call of _generate_landmark_projection: looked up when the arguments are those of
\* the table, computed otherwise
ProjectionOf(face_landmarks_3d_fcs, w, h, foc, pose, sc) ==
    IF /\ face_landmarks_3d_fcs = WetSyntheticLoader.DLIB_LANDMARKS_3D_FCS
       /\ w = WetSyntheticLoader.camera_frame_width_pixels
       /\ h = WetSyntheticLoader.camera_frame_height_pixels
       /\ foc \in FocalDraws /\ sc \in ScaleValues /\ pose \in TrajectoryPoses
    THEN ProjectionTable[foc][sc][pose]
    ELSE generate_landmark_projection(face_landmarks_3d_fcs, w, h, foc, pose, sc)

\* np.random.randn(M, N, 2) with amplitude a
NoiseArray(a, frames, landmarks) ==
    [m \in 1..frames |-> [n \in 1..landmarks |->
        IF (m + n) % 2 = 0 THEN <<a, RatNeg(a)>> ELSE <<RatNeg(a), a>>]]

\* lines 540-556: noise is added, the two last axes are swapped, and the dictionary is
\* filled; line 554: torch.Tensor([f]).float() holds f as a float32 (the pixel
\* coordinates are kept exact)
Sample(projections, noise, foc) ==
    [alpha_gt |-> "None", x_w_gt |-> "None", x_cam_gt |-> "None", x_img_gt |-> "None",
     x_img |-> [m \in 1..Len(projections) |-> [c \in 1..2 |->
                  [n \in 1..Len(projections[m]) |->
                      RatAdd(projections[m][n][c], noise[m][n][c])]]],
     f_gt |-> <<DyToRat(Float32(RatToDy(foc)))>>]

----------------------------------------------------------------------------
(* Collaborators of train(): loaders, Optimizer, SummaryWriter *)

\* dataloader.SyntheticLoader(): the legacy loader and its frame size
SyntheticLoader == [kind |-> "legacy", w |-> 640, h |-> 480]

\* SummaryWriter(comment=comment): a fresh sink for one run
SummaryWriter(comment) == [comment |-> comment, scalars |-> <<>>, hparams |-> <<>>]

\* a freshly initialised network: weights are the random initialisation of run `id`
\* until a checkpoint is loaded; grad is "none", "zero", "finite" or "nan"
Net(id) ==
    [weights |-> [from |-> "init", id |-> id, token |-> ""], updates |-> 0, ok |-> TRUE,
     grad |-> "none"]

\* torch.optim.Adam(params, lr=lr)
Adam(lr) == [lr |-> lr, steps |-> 0]

\* Optimizer(center, gt=None), to_cuda(), and the two Adam optimizers of the run
Optimizer(c, id, slr, clr) ==
    [center |-> c, sfm_net |-> Net(id), calib_net |-> Net(id),
     sfm_opt |-> Adam(slr), calib_opt |-> Adam(clr)]

\* optim before it is constructed
NoOptimizer == [center |-> <<>>, sfm_net |-> Net(0), calib_net |-> Net(0),
                sfm_opt |-> Adam(NaN), calib_opt |-> Adam(NaN)]

\* opt.zero_grad() on the parameters of one net
ZeroGrad(net) == [net EXCEPT !.grad = "zero"]

\* loss.backward(): the gradient of the loss accumulates into the net's parameters
Backward(net, l) ==
    [net EXCEPT !.grad = IF IsFinite(l) /\ net.grad # "nan" THEN "finite" ELSE "nan"]

\* opt.step(): Adam moves the parameters along the stored gradient
StepNet(net) ==
    IF net.grad \in {"none", "zero"} THEN net
    ELSE [net EXCEPT !.updates = @ + 1, !.ok = @ /\ net.grad = "finite"]

StepOpt(opt) == [opt EXCEPT !.steps = @ + 1]

----------------------------------------------------------------------------
(* train.train() *)

\* a batch of 3x3 matrices with every entry non-finite (also: K before its first assignment)
NaNMatrices == [m \in 1..MFrames |-> [r \in 1..3 |-> [c \in 1..3 |-> NaN]]]

\* the intrinsic matrix [[f, 0, cx], [0, f, cy], [0, 0, 1]]
KMatrix(f, c) ==
    << <<f, <<0, 1>>, c[1]>>, <<(<<0, 1>>), f, c[2]>>, <<(<<0, 1>>), <<0, 1>>, <<1, 1>> >> >>

\* optim.predict_intrinsic(x): the possible outputs of the calibration net
predict_intrinsic(o) ==
    IF o.calib_net.ok
    THEN {[m \in 1..MFrames |-> KMatrix(fs[m], o.center)] : fs \in [1..MFrames -> FocalValues]}
    ELSE {NaNMatrices}

\* optim.get_shape(x)
get_shape(o) == IF o.sfm_net.ok THEN "finite" ELSE "nan"

\* losses.compute_reprojection_error(x, S, K): EPnP and the reprojection; a degenerate
\* pose or a non-finite input gives a non-finite error
compute_reprojection_error(shape, k) ==
    IF shape = "finite" /\ \A m \in 1..MFrames : IsFinite(k[m][1][1])
    THEN SErrorValues \cup {NaN}
    ELSE {NaN}

\* K[:, r, c] with r, c counted from 1
Entry(k, r, c) == [m \in 1..MFrames |-> k[m][r][c]]

NoLoader == [kind |-> "None", w |-> 0, h |-> 0]

NoWriter == [comment |-> <<>>, scalars |-> <<>>, hparams |-> <<>>]

\* the run comment without its timestamp
Comment(id, dlt, o, c) ==
    <<id, IF dlt = "wet" THEN "wet" ELSE "legacy", o, c[1], c[2], c[3], c[4]>>

\* the argument of optim.save
SaveToken(e, o, fw, sw, clr, slr) ==
    [epoch |-> e, orient |-> o, fw |-> fw, sw |-> sw, clr |-> clr, slr |-> slr]

\* 10 ** n
RECURSIVE Pow10(_)
Pow10(n) == IF n = 0 THEN 1 ELSE 10 * Pow10(n - 1)

DecimalDigits == <<"0", "1", "2", "3", "4", "5", "6", "7", "8", "9">>

\* str(n) of an integer n >= 0
RECURSIVE IntToStr(_)
IntToStr(n) ==
    IF n < 10 THEN DecimalDigits[n + 1]
    ELSE IntToStr(n \div 10) \o DecimalDigits[(n % 10) + 1]

\* zero fill on the left up to `width` characters, as the 0 flag of a format spec does
RECURSIVE ZeroFill(_, _)
ZeroFill(str, width) == IF Len(str) >= width THEN str ELSE ZeroFill("0" \o str, width)

\* r * 10^prec rounded to an integer, ties to even, for a finite r >= 0
RoundScaled(r, prec) ==
    LET n == r[1] * Pow10(prec)
        q == n \div r[2]
        rem == n % r[2]
    IN IF 2 * rem > r[2] \/ (2 * rem = r[2] /\ q % 2 = 1) THEN q + 1 ELSE q

\* faulty variant: three decimals, whatever precision is asked for
FormatFixed_ThreeDecimals(r, width, prec) ==
    LET v == RoundScaled(r, 3)
    IN ZeroFill(IntToStr(v \div Pow10(3)) \o "." \o ZeroFill(IntToStr(v % Pow10(3)), 3),
                width)

\* format(r, '0<width>.<prec>f') of a finite r >= 0
FormatFixed(r, width, prec) ==
    LET v == RoundScaled(r, prec)
    IN ZeroFill(IntToStr(v \div Pow10(prec)) \o "." \o
                ZeroFill(IntToStr(v % Pow10(prec)), prec), width)

\* line 146: the f-string of a token; the weights with :.02f, calib_lr with :06f (width
\* 6, default precision 6), sfm_lr with :.06f, the epoch with :02d
TokenString(t) ==
    ZeroFill(IntToStr(t.epoch), 2) \o "_orient=" \o t.orient
        \o "_fw=" \o FormatFixed(t.fw, 0, 2) \o "_sw=" \o FormatFixed(t.sw, 0, 2)
        \o "_clr=" \o FormatFixed(t.clr, 6, 6) \o "_slr=" \o FormatFixed(t.slr, 0, 6)
        \o "_"

\* writer.add_scalar(tag, value, global_step)
AddScalar(w, tag, step) == [w EXCEPT !.scalars = Append(@, <<tag, step>>)]

\* faulty variant: the batch index is left out of the global step
GlobalStep_NoBatchIndex(e, n) == e * BATCHES_PER_EPOCH

\* the global step of the three add_scalar calls
GlobalStep(e, n) == e * BATCHES_PER_EPOCH + n

\* line 124
FError(k, f) == RatDiv(RatAbs(RatSub(Mean(Entry(k, 1, 1)), f)), f)

\* faulty variant: the two weights are applied to the wrong terms
Loss_SwappedWeights(fw, fe, sw, se) == RatAdd(RatMul(sw, fe), RatMul(fw, se))

\* line 132
Loss(fw, fe, sw, se) == RatAdd(RatMul(fw, fe), RatMul(sw, se))

\* lines 166-188: the script checks its two arguments and calls train(); the
\* orientation tag is mapped to the enum member of that value
ParseArgs ==
    /\ pc = "script"
    /\ IF data_loader_type \in {"legacy", "wet"} /\ orientation \in Orientations
       THEN pc' = "run_init" /\ UNCHANGED exception
       ELSE pc' = "raised" /\ exception' = "ValueError"
    /\ UNCHANGED notTrain
    /\ UNCHANGED <<args, run_id, combination, writer, loader, center, optim, indices,
                   tensors, saves, ops, diverged>>

\* lines 59-68: the for statement takes the next combination, or the sweep ends
RunInit ==
    /\ pc = "run_init"
    /\ IF run_id < ProductSize(hparam_values, Len(hparam_values))
       THEN LET c == product(hparam_values, run_id)
            IN /\ f_error_weight' = c[1]
               /\ s_error_weight' = c[2]
               /\ calib_lr' = c[3]
               /\ sfm_lr' = c[4]
               /\ writer' = SummaryWriter(Comment(run_id, data_loader_type, orientation, c))
               /\ loader' = NoLoader
               /\ center' = <<>>
               /\ diverged' = FALSE
               /\ pc' = "loader"
       ELSE /\ pc' = "done"
            /\ UNCHANGED <<combination, writer, loader, center, diverged>>
    /\ UNCHANGED notTrain
    /\ UNCHANGED <<exception, args, run_id, optim, indices, tensors, saves, ops>>

\* faulty variant: an unknown loader type falls back to the legacy loader
MakeLoader_FallsBackToLegacy ==
    /\ pc = "loader"
    /\ IF data_loader_type = "wet"
       THEN /\ pc' = "raised"
            /\ exception' = "TypeError"
            /\ UNCHANGED <<loader, center>>
       ELSE /\ loader' = SyntheticLoader
            /\ center' = <<Rat(SyntheticLoader.w, 2), Rat(SyntheticLoader.h, 2), <<1, 1>> >>
            /\ pc' = "optimizer"
            /\ UNCHANGED exception
    /\ UNCHANGED notTrain
    /\ UNCHANGED <<args, run_id, combination, writer, optim, indices, tensors, saves, ops, diverged>>

\* lines 74-81
MakeLoader ==
    /\ pc = "loader"
    /\ IF data_loader_type = "legacy"
       THEN /\ loader' = SyntheticLoader
            /\ center' = <<Rat(SyntheticLoader.w, 2), Rat(SyntheticLoader.h, 2), <<1, 1>> >>
            /\ pc' = "optimizer"
            /\ UNCHANGED exception
       ELSE IF data_loader_type = "wet" /\
               {"image_orientation"} \subseteq WetSyntheticLoader_parameters
       THEN /\ loader' = WetSyntheticLoader
            /\ center' = <<Rat(WetSyntheticLoader.camera_frame_width_pixels, 2),
                           Rat(WetSyntheticLoader.camera_frame_height_pixels, 2), <<1, 1>> >>
            /\ pc' = "optimizer"
            /\ UNCHANGED exception
       ELSE /\ pc' = "raised"
            \* WetSyntheticLoader.__init__(self) takes no image_orientation argument
            /\ exception' = IF data_loader_type = "wet" THEN "TypeError" ELSE "ValueError"
            /\ UNCHANGED <<loader, center>>
    /\ UNCHANGED notTrain
    /\ UNCHANGED <<args, run_id, combination, writer, optim, indices, tensors, saves, ops, diverged>>

\* faulty variant: the Optimizer of the first run is kept for the whole sweep
MakeOptimizer_KeptAcrossRuns ==
    /\ pc = "optimizer"
    /\ optim' = IF optim = NoOptimizer THEN Optimizer(center, run_id, sfm_lr, calib_lr)
                ELSE optim
    /\ epoch' = 0
    /\ i' = 0
    /\ pc' = "batch"
    /\ UNCHANGED notTrain
    /\ UNCHANGED <<exception, args, run_id, combination, writer, loader, center, tensors,
                   saves, ops, diverged>>

\* lines 84-93: a new Optimizer, its two Adam optimizers, and the loops are entered
MakeOptimizer ==
    /\ pc = "optimizer"
    /\ optim' = Optimizer(center, run_id, sfm_lr, calib_lr)
    /\ epoch' = 0
    /\ i' = 0
    /\ pc' = "batch"
    /\ UNCHANGED notTrain
    /\ UNCHANGED <<exception, args, run_id, combination, writer, loader, center, tensors,
                   saves, ops, diverged>>

\* line 103: batch = loader[i]
GetBatch ==
    /\ pc = "batch"
    /\ \E f \in FGtValues : batch' = [f_gt |-> f]
    /\ ops' = <<"loader">>
    /\ pc' = "zero_sfm"
    /\ UNCHANGED notTrain
    /\ UNCHANGED <<exception, args, run_id, combination, writer, loader, center, optim,
                   indices, fgt, K, S, f_error, s_error, loss, saves, diverged>>

\* line 104
ZeroGradSfm ==
    /\ pc = "zero_sfm"
    /\ optim' = [optim EXCEPT !.sfm_net = ZeroGrad(@)]
    /\ ops' = Append(ops, "sfm_opt.zero_grad")
    /\ pc' = "zero_calib"
    /\ UNCHANGED notTrain
    /\ UNCHANGED <<exception, args, run_id, combination, writer, loader, center, indices,
                   tensors, saves, diverged>>

\* line 105
ZeroGradCalib ==
    /\ pc = "zero_calib"
    /\ optim' = [optim EXCEPT !.calib_net = ZeroGrad(@)]
    /\ ops' = Append(ops, "calib_opt.zero_grad")
    /\ pc' = "fgt"
    /\ UNCHANGED notTrain
    /\ UNCHANGED <<exception, args, run_id, combination, writer, loader, center, indices,
                   tensors, saves, diverged>>

\* lines 107-113
ExtractBatch ==
    /\ pc = "fgt"
    /\ fgt' = batch.f_gt
    /\ pc' = "predict"
    /\ UNCHANGED notTrain
    /\ UNCHANGED <<exception, args, run_id, combination, writer, loader, center, optim,
                   indices, batch, K, S, f_error, s_error, loss, saves, ops, diverged>>

\* line 117
PredictIntrinsic ==
    /\ pc = "predict"
    /\ K' \in predict_intrinsic(optim)
    /\ ops' = Append(ops, "predict_intrinsic")
    /\ pc' = "shape"
    /\ UNCHANGED notTrain
    /\ UNCHANGED <<exception, args, run_id, combination, writer, loader, center, optim,
                   indices, batch, fgt, S, f_error, s_error, loss, saves, diverged>>

\* line 120
GetShape ==
    /\ pc = "shape"
    /\ S' = get_shape(optim)
    /\ ops' = Append(ops, "get_shape")
    /\ pc' = "f_error"
    /\ UNCHANGED notTrain
    /\ UNCHANGED <<exception, args, run_id, combination, writer, loader, center, optim,
                   indices, batch, fgt, K, f_error, s_error, loss, saves, diverged>>

\* line 124
ComputeFError ==
    /\ pc = "f_error"
    /\ f_error' = FError(K, fgt)
    /\ pc' = "s_error"
    /\ UNCHANGED notTrain
    /\ UNCHANGED <<exception, args, run_id, combination, writer, loader, center, optim,
                   indices, batch, fgt, K, S, s_error, loss, saves, ops, diverged>>

\* line 129
ComputeSError ==
    /\ pc = "s_error"
    /\ s_error' \in compute_reprojection_error(S, K)
    /\ ops' = Append(ops, "compute_reprojection_error")
    /\ pc' = "loss"
    /\ UNCHANGED notTrain
    /\ UNCHANGED <<exception, args, run_id, combination, writer, loader, center, optim,
                   indices, batch, fgt, K, S, f_error, loss, saves, diverged>>

\* line 132
ComputeLoss ==
    /\ pc = "loss"
    /\ loss' = Loss(f_error_weight, f_error, s_error_weight, s_error)
    /\ diverged' = (diverged \/ ~IsFinite(loss'))
    /\ pc' = "log_f"
    /\ UNCHANGED notTrain
    /\ UNCHANGED <<exception, args, run_id, combination, writer, loader, center, optim,
                   indices, batch, fgt, K, S, f_error, s_error, saves, ops>>

\* line 135
LogFError ==
    /\ pc = "log_f"
    /\ writer' = AddScalar(writer, "error/f_error", GlobalStep(epoch, i))
    /\ pc' = "log_s"
    /\ UNCHANGED notTrain
    /\ UNCHANGED <<exception, args, run_id, combination, loader, center, optim, indices,
                   tensors, saves, ops, diverged>>

\* line 136
LogSError ==
    /\ pc = "log_s"
    /\ writer' = AddScalar(writer, "error/s_error", GlobalStep(epoch, i))
    /\ pc' = "log_loss"
    /\ UNCHANGED notTrain
    /\ UNCHANGED <<exception, args, run_id, combination, loader, center, optim, indices,
                   tensors, saves, ops, diverged>>

\* line 137
LogLoss ==
    /\ pc = "log_loss"
    /\ writer' = AddScalar(writer, "loss/train", GlobalStep(epoch, i))
    /\ pc' = "backward"
    /\ UNCHANGED notTrain
    /\ UNCHANGED <<exception, args, run_id, combination, loader, center, optim, indices,
                   tensors, saves, ops, diverged>>

\* line 139: there is no test of the loss before it is back-propagated
LossBackward ==
    /\ pc = "backward"
    /\ optim' = [optim EXCEPT !.sfm_net = Backward(@, loss), !.calib_net = Backward(@, loss)]
    /\ ops' = Append(ops, "loss.backward")
    /\ pc' = "step_sfm"
    /\ UNCHANGED notTrain
    /\ UNCHANGED <<exception, args, run_id, combination, writer, loader, center, indices,
                   tensors, saves, diverged>>

\* faulty variant: the checkpoint is also written inside the gradient step
StepSfm_AlsoSaves ==
    /\ pc = "step_sfm"
    /\ optim' = [optim EXCEPT !.sfm_net = StepNet(@), !.sfm_opt = StepOpt(@)]
    /\ ops' = Append(ops, "sfm_opt.step")
    /\ saves' = Append(saves, SaveToken(epoch, orientation, f_error_weight, s_error_weight,
                                        calib_lr, sfm_lr))
    /\ pc' = "step_calib"
    /\ UNCHANGED notTrain
    /\ UNCHANGED <<exception, args, run_id, combination, writer, loader, center, indices,
                   tensors, diverged>>

\* faulty variant: the shape estimator is not stepped
StepSfm_Skipped ==
    /\ pc = "step_sfm"
    /\ pc' = "step_calib"
    /\ UNCHANGED notTrain
    /\ UNCHANGED <<exception, args, run_id, combination, writer, loader, center, optim,
                   indices, tensors, saves, ops, diverged>>

\* line 140
StepSfm ==
    /\ pc = "step_sfm"
    /\ optim' = [optim EXCEPT !.sfm_net = StepNet(@), !.sfm_opt = StepOpt(@)]
    /\ ops' = Append(ops, "sfm_opt.step")
    /\ pc' = "step_calib"
    /\ UNCHANGED notTrain
    /\ UNCHANGED <<exception, args, run_id, combination, writer, loader, center, indices,
                   tensors, saves, diverged>>

\* faulty variant: the batch loop stops one iteration early
StepCalib_OneShort ==
    /\ pc = "step_calib"
    /\ optim' = [optim EXCEPT !.calib_net = StepNet(@), !.calib_opt = StepOpt(@)]
    /\ ops' = Append(ops, "calib_opt.step")
    /\ IF i + 2 < BATCHES_PER_EPOCH
       THEN i' = i + 1 /\ pc' = "batch"
       ELSE i' = i /\ pc' = "save"
    /\ UNCHANGED notTrain
    /\ UNCHANGED <<exception, args, run_id, combination, writer, loader, center, epoch,
                   tensors, saves, diverged>>

\* lines 141-143 and the for statement of line 93
StepCalib ==
    /\ pc = "step_calib"
    /\ optim' = [optim EXCEPT !.calib_net = StepNet(@), !.calib_opt = StepOpt(@)]
    /\ ops' = Append(ops, "calib_opt.step")
    /\ IF i + 1 < BATCHES_PER_EPOCH
       THEN i' = i + 1 /\ pc' = "batch"
       ELSE i' = i /\ pc' = "save"
    /\ UNCHANGED notTrain
    /\ UNCHANGED <<exception, args, run_id, combination, writer, loader, center, epoch,
                   tensors, saves, diverged>>

\* line 146 and the for statement of line 92
Save ==
    /\ pc = "save"
    /\ saves' = Append(saves, SaveToken(epoch, orientation, f_error_weight, s_error_weight,
                                        calib_lr, sfm_lr))
    /\ IF epoch + 1 < EPOCHS_COUNT
       THEN epoch' = epoch + 1 /\ i' = 0 /\ pc' = "batch"
       ELSE UNCHANGED indices /\ pc' = "hparams"
    /\ UNCHANGED notTrain
    /\ UNCHANGED <<exception, args, run_id, combination, writer, loader, center, optim,
                   tensors, ops, diverged>>

\* lines 149-161, and enumerate() moves on
AddHParams ==
    /\ pc = "hparams"
    /\ writer' = [writer EXCEPT !.hparams =
                     Append(@, <<f_error_weight, s_error_weight, calib_lr, sfm_lr,
                                 f_error, s_error, loss>>)]
    /\ run_id' = run_id + 1
    /\ pc' = "run_init"
    /\ UNCHANGED notTrain
    /\ UNCHANGED <<exception, args, combination, loader, center, optim, indices, tensors,
                   saves, ops, diverged>>

\* the variables of main() and of the schedule controller while they are not in use
NoSchedule ==
    [kind |-> "none", state |-> "idle", round |-> 0, step |-> 0, G |-> 0, C |-> 0, S |-> 0,
     max_iter |-> 0]

\* the locals of WetSyntheticLoader.__getitem__ before a call
NoPose == [t |-> <<>>, rot |-> <<>>]

CallsUnused ==
    /\ samples_count = 0
    /\ trajectory = <<>>
    /\ fb_landmarks = <<>>
    /\ fb_width = 0 /\ fb_height = 0
    /\ flip_coordinates = FALSE
    /\ dlib_landmarks = <<>>
    /\ random_value = Dy(0, 0, 0)
    /\ f_double = Dy(0, 0, 0)
    /\ noisy_batch = <<>>
    /\ x_permuted = <<>>
    /\ keypoints_tensor = <<>>

LoaderUnused ==
    /\ idx = 0
    /\ f_drawn = NaN
    /\ scale = <<>>
    /\ iter = 0
    /\ init_pose = NoPose /\ final_pose = NoPose
    /\ projected_landmarks_batch = <<>>
    /\ sample = <<>>
    /\ derivations = 0
    /\ keypoints_list = <<>>
    /\ CallsUnused

MainUnused ==
    /\ USE_OPTIMIZATION = FALSE
    /\ global_iter_count = 0 /\ calib_iter_count = 0 /\ sfm_iter_count = 0
    /\ checkpoints = {}
    /\ face_keypoints_tensor = <<>>
    /\ K_avg = <<>>
    /\ K_gt = <<>>
    /\ sched = NoSchedule

\* the script is started with --data-loader and --orientation, or
\* train(data_loader_type, orientation) is called
Init ==
    /\ pc \in {"script", "run_init"}
    /\ exception = "none"
    /\ data_loader_type \in DataLoaderTypes
    /\ orientation \in IF pc = "script" THEN Orientations \cup {"upside-down"}
                       ELSE Orientations
    /\ run_id = 0
    /\ f_error_weight = NaN /\ s_error_weight = NaN /\ calib_lr = NaN /\ sfm_lr = NaN
    /\ writer = NoWriter
    /\ loader = NoLoader
    /\ center = <<>>
    /\ optim = NoOptimizer
    /\ epoch = 0 /\ i = 0
    /\ batch = [f_gt |-> NaN]
    /\ fgt = NaN
    /\ K = NaNMatrices
    /\ S = "nan"
    /\ f_error = NaN /\ s_error = NaN /\ loss = NaN
    /\ saves = <<>>
    /\ ops = <<>>
    /\ diverged = FALSE
    /\ MainUnused
    /\ LoaderUnused

Next ==
    \/ ParseArgs
    \/ RunInit \/ MakeLoader \/ MakeOptimizer
    \/ GetBatch \/ ZeroGradSfm \/ ZeroGradCalib \/ ExtractBatch
    \/ PredictIntrinsic \/ GetShape \/ ComputeFError \/ ComputeSError \/ ComputeLoss
    \/ LogFError \/ LogSError \/ LogLoss
    \/ LossBackward \/ StepSfm \/ StepCalib
    \/ Save \/ AddHParams

Spec == Init /\ [][Next]_vars

----------------------------------------------------------------------------
(* The Optimizer's schedule controller (section 4.4 of the specification) *)

\* the learnable weights of a net, without its gradient buffer
Params(net) == <<net.weights, net.updates, net.ok>>

\* one gradient step: gradients zeroed, forward pass, backward pass restricted to the
\* active estimators, update of the active estimators
GradientStep(o, calib, sfm) ==
    [o EXCEPT !.calib_net = IF calib THEN StepNet(Backward(ZeroGrad(@), <<1, 1>>))
                            ELSE ZeroGrad(@),
              !.calib_opt = IF calib THEN StepOpt(@) ELSE @,
              !.sfm_net = IF sfm THEN StepNet(Backward(ZeroGrad(@), <<1, 1>>))
                          ELSE ZeroGrad(@),
              !.sfm_opt = IF sfm THEN StepOpt(@) ELSE @]

\* optim.dualoptimization(x, global_iter_count, calib_iter_count, sfm_iter_count)
dualoptimization(g, c, n) ==
    [kind |-> "dual", state |-> "ALTERNATING_CALIB_PHASE", round |-> 0, step |-> 0,
     G |-> g, C |-> c, S |-> n, max_iter |-> 0]

\* optim.jointoptimization(x, max_iter)
jointoptimization(n) ==
    [kind |-> "joint", state |-> "JOINT", round |-> 0, step |-> 0,
     G |-> 0, C |-> 0, S |-> 0, max_iter |-> n]

\* optim.sequentialoptimization(x): each phase runs max_iter steps
sequentialoptimization(n) ==
    [kind |-> "sequential", state |-> "SEQUENTIAL_CALIB", round |-> 0, step |-> 0,
     G |-> 0, C |-> 0, S |-> 0, max_iter |-> n]

ScheduleFrame ==
    UNCHANGED <<pc, exception, run_id, calib_lr, sfm_lr, writer, center, K, S, f_error,
                trainOnly, USE_OPTIMIZATION, counts, checkpoints, face_keypoints_tensor,
                K_avg, K_gt, loaderOnly>>

\* faulty variant: the shape estimator is stepped in the calibration phase as well
AlternatingCalibStep_BothStepped ==
    /\ sched.state = "ALTERNATING_CALIB_PHASE"
    /\ optim' = GradientStep(optim, TRUE, TRUE)
    /\ sched' = IF sched.step + 1 < sched.C
                THEN [sched EXCEPT !.step = @ + 1]
                ELSE [sched EXCEPT !.state = "ALTERNATING_SFM_PHASE", !.step = 0]
    /\ ScheduleFrame

\* a gradient step of the calibration phase of a round
AlternatingCalibStep ==
    /\ sched.state = "ALTERNATING_CALIB_PHASE"
    /\ optim' = GradientStep(optim, TRUE, FALSE)
    /\ sched' = IF sched.step + 1 < sched.C
                THEN [sched EXCEPT !.step = @ + 1]
                ELSE [sched EXCEPT !.state = "ALTERNATING_SFM_PHASE", !.step = 0]
    /\ ScheduleFrame

\* faulty variant: the last round is left out
AlternatingSfmStep_OneRoundShort ==
    /\ sched.state = "ALTERNATING_SFM_PHASE"
    /\ optim' = GradientStep(optim, FALSE, TRUE)
    /\ sched' = IF sched.step + 1 < sched.S
                THEN [sched EXCEPT !.step = @ + 1]
                ELSE IF sched.round + 2 < sched.G
                     THEN [sched EXCEPT !.state = "ALTERNATING_CALIB_PHASE",
                                        !.round = @ + 1, !.step = 0]
                     ELSE [sched EXCEPT !.state = "CONVERGED_OR_MAXITER",
                                        !.round = @ + 1, !.step = 0]
    /\ ScheduleFrame

\* a gradient step of the SFM phase of a round; after the last one the next round
\* starts, or the schedule ends
AlternatingSfmStep ==
    /\ sched.state = "ALTERNATING_SFM_PHASE"
    /\ optim' = GradientStep(optim, FALSE, TRUE)
    /\ sched' = IF sched.step + 1 < sched.S
                THEN [sched EXCEPT !.step = @ + 1]
                ELSE IF sched.round + 1 < sched.G
                     THEN [sched EXCEPT !.state = "ALTERNATING_CALIB_PHASE",
                                        !.round = @ + 1, !.step = 0]
                     ELSE [sched EXCEPT !.state = "CONVERGED_OR_MAXITER",
                                        !.round = @ + 1, !.step = 0]
    /\ ScheduleFrame

\* joint optimization: both estimators are stepped in every iteration
JointStep ==
    /\ sched.state = "JOINT"
    /\ optim' = GradientStep(optim, TRUE, TRUE)
    /\ sched' = IF sched.step + 1 < sched.max_iter
                THEN [sched EXCEPT !.step = @ + 1]
                ELSE [sched EXCEPT !.state = "CONVERGED_OR_MAXITER", !.step = 0]
    /\ ScheduleFrame

\* sequential optimization, first phase
SequentialCalibStep ==
    /\ sched.state = "SEQUENTIAL_CALIB"
    /\ optim' = GradientStep(optim, TRUE, FALSE)
    /\ sched' = IF sched.step + 1 < sched.max_iter
                THEN [sched EXCEPT !.step = @ + 1]
                ELSE [sched EXCEPT !.state = "SEQUENTIAL_SFM", !.step = 0]
    /\ ScheduleFrame

\* sequential optimization, second phase
SequentialSfmStep ==
    /\ sched.state = "SEQUENTIAL_SFM"
    /\ optim' = GradientStep(optim, FALSE, TRUE)
    /\ sched' = IF sched.step + 1 < sched.max_iter
                THEN [sched EXCEPT !.step = @ + 1]
                ELSE [sched EXCEPT !.state = "CONVERGED_OR_MAXITER", !.step = 0]
    /\ ScheduleFrame

\* the forward or backward pass of a step raises a numerical failure: the run is aborted
ScheduleFails ==
    /\ sched.state \in {"JOINT", "SEQUENTIAL_CALIB", "SEQUENTIAL_SFM",
                        "ALTERNATING_CALIB_PHASE", "ALTERNATING_SFM_PHASE"}
    /\ sched' = [sched EXCEPT !.state = "FAILED"]
    /\ UNCHANGED optim
    /\ ScheduleFrame

ScheduleNext ==
    \/ AlternatingCalibStep \/ AlternatingSfmStep
    \/ JointStep
    \/ SequentialCalibStep \/ SequentialSfmStep
    \/ ScheduleFails

\* an Optimizer on which one of the three schedules has been called
InitSchedules ==
    /\ pc = "schedule"
    /\ exception = "none"
    /\ data_loader_type = "legacy"
    /\ orientation = "portrait"
    /\ run_id = 0
    /\ f_error_weight = NaN /\ s_error_weight = NaN
    /\ calib_lr \in {CALIB_LRS[k] : k \in 1..Len(CALIB_LRS)}
    /\ sfm_lr \in {SFM_LRS[k] : k \in 1..Len(SFM_LRS)}
    /\ writer = NoWriter
    /\ loader = NoLoader
    /\ center = << <<240, 1>>, <<320, 1>>, <<1, 1>> >>
    /\ optim = Optimizer(center, run_id, sfm_lr, calib_lr)
    /\ epoch = 0 /\ i = 0
    /\ batch = [f_gt |-> NaN]
    /\ fgt = NaN
    /\ K = NaNMatrices
    /\ S = "nan"
    /\ f_error = NaN /\ s_error = NaN /\ loss = NaN
    /\ saves = <<>>
    /\ ops = <<>>
    /\ diverged = FALSE
    /\ USE_OPTIMIZATION = TRUE
    /\ global_iter_count = 0 /\ calib_iter_count = 0 /\ sfm_iter_count = 0
    /\ checkpoints = {}
    /\ face_keypoints_tensor = <<>>
    /\ K_avg = <<>>
    /\ K_gt = <<>>
    /\ LoaderUnused
    /\ \/ \E g, c, n \in 1..MaxIterCount : sched = dualoptimization(g, c, n)
       \/ \E n \in 1..MaxIterCount : sched = jointoptimization(n)
       \/ \E n \in 1..MaxIterCount : sched = sequentialoptimization(n)

SpecSchedules == InitSchedules /\ [][ScheduleNext]_vars

----------------------------------------------------------------------------
(* wet_test.main() *)

main_CALIB_LRS == << <<1, 100>>, <<1, 1000>>, <<1, 10000>>, <<1, 100000>> >>
main_SFM_LRS == << <<1, 100>>, <<1, 1000>>, <<1, 10000>>, <<1, 100000>> >>

GLOBAL_ITER_COUNTS == <<3, 5, 10>>
CALIB_ITER_COUNTS == <<3, 5, 10>>
SFM_ITER_COUNTS == <<3, 5, 10>>

main_hparam_values ==
    <<main_CALIB_LRS, main_SFM_LRS, GLOBAL_ITER_COUNTS, CALIB_ITER_COUNTS, SFM_ITER_COUNTS>>

tokens ==
    <<"wet_pre_trained_model/00_",
      "00_fw=1.00_sw=10.00_clr=0.001000_slr=0.001000_",
      "00_fw=10.00_sw=10.00_clr=0.001000_slr=0.001000_">>

PRE_TRAINED_MODEL_INDEX == 2

\* contents of the checkpoint store: nothing, or an artifact for each token
CheckpointStores == {{}, {tokens[k] : k \in 1..Len(tokens)}}

\* ground-truth camera matrices the calibration file can hold
KGtValues ==
    {KMatrix(<<500, 1>>, << <<240, 1>>, <<320, 1>> >>),
     KMatrix(<<450, 1>>, << <<236, 1>>, <<318, 1>> >>)}

\* optim.load(token) when the token has an artifact: both nets take the stored weights
load(o, token) ==
    [o EXCEPT !.calib_net.weights = [from |-> "checkpoint", id |-> 0, token |-> token],
              !.sfm_net.weights = [from |-> "checkpoint", id |-> 0, token |-> token]]

\* the comment of a run of main() without its timestamp
MainComment(id, c) == <<id, "wet_test", c[1], c[2], c[3], c[4], c[5]>>

\* lines 374-384
KAvg(k) ==
    << <<Mean(Entry(k, 1, 1)), <<0, 1>>, Mean(Entry(k, 1, 3))>>,
       <<(<<0, 1>>), Mean(Entry(k, 1, 1)), Mean(Entry(k, 2, 3))>>,
       <<(<<0, 1>>), <<0, 1>>, <<1, 1>> >> >>

\* load_wet_data(), lines 95-149: 100 frames in the source, each reduced to its 68 dlib
\* landmarks by face_blaze_2_dlib_2d; the shapes of the arrays of the list
load_wet_data == [k \in 1..MFrames |-> <<68, 2>>]

\* convert_keypoints_list_to_tensor(keypoints_list), lines 208-238, on the shapes of the
\* arrays of the list: the outcomes, each an exception or the shape of the tensor.
\* np.array of arrays of unequal shapes raises or builds an array of objects, depending
\* on the numpy at hand; swapaxes(1, 2) then fails on what was built
convert_keypoints_list_to_tensor(list) ==
    IF \E k \in 1..Len(list) : Len(list[k]) # 2 \/ list[k][1] # 68
    THEN {[exception |-> "AssertionError", shape |-> <<>>]}
    ELSE IF Len(list) = 0
    THEN {[exception |-> "AxisError", shape |-> <<>>]}
    ELSE IF \E k \in 1..Len(list) : list[k] # list[1]
    THEN {[exception |-> "ValueError", shape |-> <<>>],
          [exception |-> "AxisError", shape |-> <<>>]}
    ELSE LET keypoints == <<Len(list), list[1][1], list[1][2]>>
             swapped == <<keypoints[1], keypoints[3], keypoints[2]>>
         IN IF swapped[2] = 2 /\ swapped[3] = 68
            THEN {[exception |-> "none", shape |-> swapped]}
            ELSE {[exception |-> "AssertionError", shape |-> <<>>]}

MainFrame == UNCHANGED <<trainOnly, USE_OPTIMIZATION, checkpoints, loaderOnly>>

\* lines 281-296: the for statement takes the next combination, or the sweep ends; a
\* run starts with a new SummaryWriter and a new Optimizer
MainRunInit ==
    /\ pc = "m_run_init"
    /\ IF run_id < ProductSize(main_hparam_values, Len(main_hparam_values))
       THEN LET c == product(main_hparam_values, run_id)
            IN /\ calib_lr' = c[1]
               /\ sfm_lr' = c[2]
               /\ global_iter_count' = c[3]
               /\ calib_iter_count' = c[4]
               /\ sfm_iter_count' = c[5]
               /\ writer' = SummaryWriter(MainComment(run_id, c))
               /\ optim' = Optimizer(center, run_id, c[2], c[1])
               /\ pc' = "m_load"
       ELSE /\ pc' = "done"
            /\ UNCHANGED <<calib_lr, sfm_lr, counts, writer, optim>>
    /\ UNCHANGED <<exception, run_id, center, K, S, f_error, face_keypoints_tensor,
                   K_avg, K_gt, sched>>
    /\ MainFrame

\* faulty variant: a missing checkpoint is ignored and the run goes on with the fresh weights
LoadCheckpoint_Ignored ==
    /\ pc = "m_load"
    /\ optim' = IF tokens[PRE_TRAINED_MODEL_INDEX + 1] \in checkpoints
                THEN load(optim, tokens[PRE_TRAINED_MODEL_INDEX + 1])
                ELSE optim
    /\ pc' = "m_landmarks"
    /\ UNCHANGED <<exception, run_id, calib_lr, sfm_lr, counts, writer, center, K, S,
                   f_error, face_keypoints_tensor, K_avg, K_gt, sched>>
    /\ MainFrame

\* lines 303-312: optim.load(tokens[PRE_TRAINED_MODEL_INDEX]), outside any try
LoadCheckpoint ==
    /\ pc = "m_load"
    /\ IF tokens[PRE_TRAINED_MODEL_INDEX + 1] \in checkpoints
       THEN /\ optim' = load(optim, tokens[PRE_TRAINED_MODEL_INDEX + 1])
            /\ pc' = "m_landmarks"
            /\ UNCHANGED exception
       ELSE /\ exception' = "CheckpointNotFound"
            /\ pc' = "raised"
            /\ UNCHANGED optim
    /\ UNCHANGED <<run_id, calib_lr, sfm_lr, counts, writer, center, K, S, f_error,
                   face_keypoints_tensor, K_avg, K_gt, sched>>
    /\ MainFrame

\* lines 315-319: load_wet_data() and convert_keypoints_list_to_tensor()
LoadLandmarks ==
    /\ pc = "m_landmarks"
    /\ \E out \in convert_keypoints_list_to_tensor(load_wet_data) :
          /\ out.exception = "none"
          /\ face_keypoints_tensor' = out.shape
    /\ pc' = "m_optimize"
    /\ UNCHANGED <<exception, run_id, calib_lr, sfm_lr, counts, writer, center, optim, K,
                   S, f_error, K_avg, K_gt, sched>>
    /\ MainFrame

\* lines 337-351: the call of optim.dualoptimization inside the try
CallDualOptimization ==
    /\ pc = "m_optimize"
    /\ USE_OPTIMIZATION
    /\ sched' = dualoptimization(global_iter_count, calib_iter_count, sfm_iter_count)
    /\ pc' = "m_dual"
    /\ UNCHANGED <<exception, run_id, calib_lr, sfm_lr, counts, writer, center, optim, K,
                   S, f_error, face_keypoints_tensor, K_avg, K_gt>>
    /\ MainFrame

\* line 346: S, K, R, T = the result of the call
DualOptimizationReturns ==
    /\ pc = "m_dual"
    /\ sched.state = "CONVERGED_OR_MAXITER"
    /\ K' \in predict_intrinsic(optim)
    /\ S' = get_shape(optim)
    /\ sched' = NoSchedule
    /\ pc' = "m_k_avg"
    /\ UNCHANGED <<exception, run_id, calib_lr, sfm_lr, counts, writer, center, optim,
                   f_error, face_keypoints_tensor, K_avg, K_gt>>
    /\ MainFrame

\* lines 352-354: except: print(...); continue
DualOptimizationCaught ==
    /\ pc = "m_dual"
    /\ sched.state = "FAILED"
    /\ sched' = NoSchedule
    /\ run_id' = run_id + 1
    /\ pc' = "m_run_init"
    /\ UNCHANGED <<exception, calib_lr, sfm_lr, counts, writer, center, optim, K, S,
                   f_error, face_keypoints_tensor, K_avg, K_gt>>
    /\ MainFrame

\* faulty variant: once a ground truth is at hand its focal length is what is predicted
MainPredictIntrinsic_ReadsGroundTruth ==
    /\ pc = "m_optimize"
    /\ ~USE_OPTIMIZATION
    /\ IF K_gt = <<>>
       THEN K' \in predict_intrinsic(optim)
       ELSE K' = [m \in 1..MFrames |-> KMatrix(K_gt[1][1], optim.center)]
    /\ pc' = "m_shape"
    /\ UNCHANGED <<exception, run_id, calib_lr, sfm_lr, counts, writer, center, optim, S,
                   f_error, face_keypoints_tensor, K_avg, K_gt, sched>>
    /\ MainFrame

\* lines 366-369
MainPredictIntrinsic ==
    /\ pc = "m_optimize"
    /\ ~USE_OPTIMIZATION
    /\ K' \in predict_intrinsic(optim)
    /\ pc' = "m_shape"
    /\ UNCHANGED <<exception, run_id, calib_lr, sfm_lr, counts, writer, center, optim, S,
                   f_error, face_keypoints_tensor, K_avg, K_gt, sched>>
    /\ MainFrame

\* lines 370-371
MainGetShape ==
    /\ pc = "m_shape"
    /\ S' = get_shape(optim)
    /\ pc' = "m_k_avg"
    /\ UNCHANGED <<exception, run_id, calib_lr, sfm_lr, counts, writer, center, optim, K,
                   f_error, face_keypoints_tensor, K_avg, K_gt, sched>>
    /\ MainFrame

\* faulty variant: the matrix of the first frame is reported instead of the average
AverageK_FirstFrame ==
    /\ pc = "m_k_avg"
    /\ K_avg' = K[1]
    /\ pc' = "m_load_gt"
    /\ UNCHANGED <<exception, run_id, calib_lr, sfm_lr, counts, writer, center, optim, K,
                   S, f_error, face_keypoints_tensor, K_gt, sched>>
    /\ MainFrame

\* lines 374-386
AverageK ==
    /\ pc = "m_k_avg"
    /\ K_avg' = KAvg(K)
    /\ pc' = "m_load_gt"
    /\ UNCHANGED <<exception, run_id, calib_lr, sfm_lr, counts, writer, center, optim, K,
                   S, f_error, face_keypoints_tensor, K_gt, sched>>
    /\ MainFrame

\* lines 389-391
LoadGroundTruth ==
    /\ pc = "m_load_gt"
    /\ K_gt' \in KGtValues
    /\ pc' = "m_f_error"
    /\ UNCHANGED <<exception, run_id, calib_lr, sfm_lr, counts, writer, center, optim, K,
                   S, f_error, face_keypoints_tensor, K_avg, sched>>
    /\ MainFrame

\* lines 394-396
MainFError ==
    /\ pc = "m_f_error"
    /\ f_error' = RatDiv(RatAbs(RatSub(Mean(Entry(K, 1, 1)), K_gt[1][1])), K_gt[1][1])
    /\ pc' = "m_hparams"
    /\ UNCHANGED <<exception, run_id, calib_lr, sfm_lr, counts, writer, center, optim, K,
                   S, face_keypoints_tensor, K_avg, K_gt, sched>>
    /\ MainFrame

\* lines 398-409, and enumerate() moves on
MainAddHParams ==
    /\ pc = "m_hparams"
    /\ writer' = [writer EXCEPT !.hparams =
                     Append(@, <<calib_lr, sfm_lr, global_iter_count, calib_iter_count,
                                 sfm_iter_count, f_error>>)]
    /\ run_id' = run_id + 1
    /\ pc' = "m_run_init"
    /\ UNCHANGED <<exception, calib_lr, sfm_lr, counts, center, optim, K, S, f_error,
                   face_keypoints_tensor, K_avg, K_gt, sched>>
    /\ MainFrame

\* main() is called; the checkpoint store holds some of the tokens
InitMain ==
    /\ pc = "m_run_init"
    /\ exception = "none"
    /\ data_loader_type = "legacy"
    /\ orientation = "portrait"
    /\ run_id = 0
    /\ f_error_weight = NaN /\ s_error_weight = NaN /\ calib_lr = NaN /\ sfm_lr = NaN
    /\ writer = NoWriter
    /\ loader = NoLoader
    /\ center = << <<240, 1>>, <<320, 1>>, <<1, 1>> >>
    /\ optim = NoOptimizer
    /\ epoch = 0 /\ i = 0
    /\ batch = [f_gt |-> NaN]
    /\ fgt = NaN
    /\ K = NaNMatrices
    /\ S = "nan"
    /\ f_error = NaN /\ s_error = NaN /\ loss = NaN
    /\ saves = <<>>
    /\ ops = <<>>
    /\ diverged = FALSE
    /\ USE_OPTIMIZATION \in BOOLEAN
    /\ global_iter_count = 0 /\ calib_iter_count = 0 /\ sfm_iter_count = 0
    /\ checkpoints \in CheckpointStores
    /\ face_keypoints_tensor = <<>>
    /\ K_avg = <<>>
    /\ K_gt = <<>>
    /\ sched = NoSchedule
    /\ LoaderUnused

MainNext ==
    \/ MainRunInit \/ LoadCheckpoint \/ LoadLandmarks
    \/ CallDualOptimization \/ DualOptimizationReturns \/ DualOptimizationCaught
    \/ MainPredictIntrinsic \/ MainGetShape
    \/ AverageK \/ LoadGroundTruth \/ MainFError \/ MainAddHParams
    \/ AlternatingCalibStep \/ AlternatingSfmStep \/ ScheduleFails

SpecMain == InitMain /\ [][MainNext]_vars

----------------------------------------------------------------------------
(* wet_dataloader.WetSyntheticLoader: construction and __getitem__ *)

\* indices a caller passes
IdxValues == {0, 7}

\* array.shape of a non-empty three-dimensional array
ShapeOf(array) == <<Len(array), Len(array[1]), Len(array[1][1])>>

LoaderFrame ==
    UNCHANGED <<args, run_id, combination, writer, center, optim, epoch, tensors, saves,
                ops, diverged, USE_OPTIMIZATION, counts, checkpoints,
                face_keypoints_tensor, K_avg, K_gt, sched, keypoints_list, callLocals>>

\* WetSyntheticLoader(): lines 17-507
Construct ==
    /\ pc = "w_new"
    /\ loader' = WetSyntheticLoader
    /\ derivations' = derivations + 1
    /\ pc' = "w_idle"
    /\ UNCHANGED <<exception, i, getitemLocals>>
    /\ LoaderFrame

\* loader[idx] is called; line 527: f is drawn
GetItem ==
    /\ pc \in {"w_idle", "w_returned"}
    /\ \E n \in IdxValues : idx' = n
    /\ \E r \in RandomValues :
          f_drawn' = DyToRat(FocalLength(loader.f_min, loader.f_max, RatToDy(r)))
    /\ scale' = <<>>
    /\ iter' = 0
    /\ init_pose' = NoPose /\ final_pose' = NoPose
    /\ projected_landmarks_batch' = <<>>
    /\ sample' = <<>>
    /\ pc' = "w_scale"
    /\ UNCHANGED <<exception, loader, i, derivations>>
    /\ LoaderFrame

\* _generate_landmark_projections, lines 736-749: the scale of the batch is drawn
DrawScale ==
    /\ pc = "w_scale"
    /\ scale' \in ScaleValues
    /\ iter' = 0
    /\ pc' = "w_pose"
    /\ UNCHANGED <<exception, loader, i, idx, f_drawn, init_pose, final_pose,
                   projected_landmarks_batch, sample, derivations>>
    /\ LoaderFrame

\* lines 753-768: an initial and a final pose are drawn
SamplePosePair ==
    /\ pc = "w_pose"
    /\ init_pose' \in Poses
    /\ final_pose' \in Poses
    /\ pc' = "w_check"
    /\ UNCHANGED <<exception, loader, i, idx, f_drawn, scale, iter,
                   projected_landmarks_batch, sample, derivations>>
    /\ LoaderFrame

\* faulty variant: the scaling overwrites the first row of the loader's table
CheckPosePair_ScalesInPlace ==
    /\ pc = "w_check"
    /\ loader' = [loader EXCEPT !.DLIB_LANDMARKS_3D_FCS[1] = <<@[1] + 1, @[2], @[3]>>]
    /\ LET w == loader.camera_frame_width_pixels
           h == loader.camera_frame_height_pixels
           initial_projection ==
               ProjectionOf(loader.DLIB_LANDMARKS_3D_FCS, w, h, f_drawn,
                                            init_pose, scale)
           final_projection ==
               ProjectionOf(loader.DLIB_LANDMARKS_3D_FCS, w, h, f_drawn,
                                            final_pose, scale)
       IN IF ValidPose(initial_projection, w, h) /\ ValidPose(final_projection, w, h)
          THEN /\ i' = 0
               /\ pc' = "w_frames"
               /\ UNCHANGED iter
          ELSE /\ iter' = IF iter < MaxIter THEN iter + 1 ELSE iter
               /\ pc' = "w_pose"
               /\ UNCHANGED i
    /\ UNCHANGED <<exception, idx, f_drawn, scale, init_pose, final_pose,
                   projected_landmarks_batch, sample, derivations>>
    /\ LoaderFrame

\* faulty variant: the scale is drawn inside the loop, anew for every pose pair
CheckPosePair_RedrawsScale ==
    /\ pc = "w_check"
    /\ LET w == loader.camera_frame_width_pixels
           h == loader.camera_frame_height_pixels
           initial_projection ==
               ProjectionOf(loader.DLIB_LANDMARKS_3D_FCS, w, h, f_drawn, init_pose, scale)
           final_projection ==
               ProjectionOf(loader.DLIB_LANDMARKS_3D_FCS, w, h, f_drawn, final_pose, scale)
       IN IF ValidPose(initial_projection, w, h) /\ ValidPose(final_projection, w, h)
          THEN /\ i' = 0
               /\ pc' = "w_frames"
               /\ UNCHANGED <<iter, scale>>
          ELSE /\ iter' = IF iter < MaxIter THEN iter + 1 ELSE iter
               /\ pc' = "w_pose"
               /\ scale' \in ScaleValues
               /\ UNCHANGED i
    /\ UNCHANGED <<exception, loader, idx, f_drawn, init_pose, final_pose,
                   projected_landmarks_batch, sample, derivations>>
    /\ LoaderFrame

\* lines 771-802: both poses are projected; the loop (while True) is left when all
\* landmarks of both lie inside the frame, and goes round again otherwise
CheckPosePair ==
    /\ pc = "w_check"
    /\ LET w == loader.camera_frame_width_pixels
           h == loader.camera_frame_height_pixels
           initial_projection ==
               ProjectionOf(loader.DLIB_LANDMARKS_3D_FCS, w, h, f_drawn,
                                            init_pose, scale)
           final_projection ==
               ProjectionOf(loader.DLIB_LANDMARKS_3D_FCS, w, h, f_drawn,
                                            final_pose, scale)
       IN IF ValidPose(initial_projection, w, h) /\ ValidPose(final_projection, w, h)
          THEN /\ i' = 0
               /\ pc' = "w_frames"
               /\ UNCHANGED iter
          ELSE /\ iter' = IF iter < MaxIter THEN iter + 1 ELSE iter
               /\ pc' = "w_pose"
               /\ UNCHANGED i
    /\ UNCHANGED <<exception, loader, idx, f_drawn, scale, init_pose, final_pose,
                   projected_landmarks_batch, sample, derivations>>
    /\ LoaderFrame

\* faulty variant: the frame loop stops one frame early
ProjectFrame_OneFrameShort ==
    /\ pc = "w_frames"
    /\ projected_landmarks_batch' =
          Append(projected_landmarks_batch,
                 ProjectionOf(
                     loader.DLIB_LANDMARKS_3D_FCS, loader.camera_frame_width_pixels,
                     loader.camera_frame_height_pixels, f_drawn,
                     TrajectoryPose(init_pose, final_pose, loader.M, i), scale))
    /\ i' = i + 1
    /\ pc' = IF i + 2 < loader.M THEN "w_frames" ELSE "w_assert"
    /\ UNCHANGED <<exception, loader, idx, f_drawn, scale, iter, init_pose, final_pose,
                   sample, derivations>>
    /\ LoaderFrame

\* lines 805-831: frame i of the trajectory is projected (samples_count = self.M)
ProjectFrame ==
    /\ pc = "w_frames"
    /\ projected_landmarks_batch' =
          Append(projected_landmarks_batch,
                 ProjectionOf(
                     loader.DLIB_LANDMARKS_3D_FCS, loader.camera_frame_width_pixels,
                     loader.camera_frame_height_pixels, f_drawn,
                     TrajectoryPose(init_pose, final_pose, loader.M, i), scale))
    /\ i' = i + 1
    /\ pc' = IF i + 1 < loader.M THEN "w_frames" ELSE "w_assert"
    /\ UNCHANGED <<exception, loader, idx, f_drawn, scale, iter, init_pose, final_pose,
                   sample, derivations>>
    /\ LoaderFrame

\* lines 537-556: the shape assertion (100 frames in the source), the noise, and the
\* dictionary that is returned
ReturnSample ==
    /\ pc = "w_assert"
    /\ IF ShapeOf(projected_landmarks_batch) = <<MFrames, 68, 2>>
       THEN /\ \E a \in NoiseAmplitudes :
                  sample' = Sample(projected_landmarks_batch,
                                   NoiseArray(a, loader.M, loader.N), f_drawn)
            /\ pc' = "w_returned"
            /\ UNCHANGED exception
       ELSE /\ exception' = "AssertionError"
            /\ pc' = "raised"
            /\ UNCHANGED sample
    /\ UNCHANGED <<loader, i, idx, f_drawn, scale, iter, init_pose, final_pose,
                   projected_landmarks_batch, derivations>>
    /\ LoaderFrame

\* a script is about to construct the loader
InitLoader ==
    /\ pc = "w_new"
    /\ exception = "none"
    /\ data_loader_type = "wet"
    /\ orientation = "portrait"
    /\ run_id = 0
    /\ f_error_weight = NaN /\ s_error_weight = NaN /\ calib_lr = NaN /\ sfm_lr = NaN
    /\ writer = NoWriter
    /\ loader = NoLoader
    /\ center = <<>>
    /\ optim = NoOptimizer
    /\ epoch = 0 /\ i = 0
    /\ batch = [f_gt |-> NaN]
    /\ fgt = NaN
    /\ K = NaNMatrices
    /\ S = "nan"
    /\ f_error = NaN /\ s_error = NaN /\ loss = NaN
    /\ saves = <<>>
    /\ ops = <<>>
    /\ diverged = FALSE
    /\ MainUnused
    /\ LoaderUnused

LoaderNext ==
    \/ Construct \/ GetItem \/ DrawScale \/ SamplePosePair \/ CheckPosePair
    \/ ProjectFrame \/ ReturnSample

SpecLoader == InitLoader /\ [][LoaderNext]_vars

\* the interpreter goes on executing the rejection loop of lines 750-802: a pose pair
\* that is due is drawn, and a drawn pair is tested
SpecLoaderFair == SpecLoader /\ WF_vars(SamplePosePair) /\ WF_vars(CheckPosePair)

----------------------------------------------------------------------------
(* wet_test.convert_keypoints_list_to_tensor, called on a list of landmark arrays *)

\* shapes an array of the list can have
FrameShapes == {<<68, 2>>, <<67, 2>>, <<68, 3>>, <<68>>}

\* the sequences over a set with at most n elements
RECURSIVE SeqsUpTo(_, _)
SeqsUpTo(set, n) ==
    IF n = 0 THEN {<<>>}
    ELSE LET shorter == SeqsUpTo(set, n - 1)
         IN shorter \cup {Append(q, x) : q \in {r \in shorter : Len(r) = n - 1}, x \in set}

\* lines 208-238
ConvertKeypoints ==
    /\ pc = "c_call"
    /\ \E out \in convert_keypoints_list_to_tensor(keypoints_list) :
          /\ exception' = out.exception
          /\ face_keypoints_tensor' = out.shape
          /\ pc' = IF out.exception = "none" THEN "c_returned" ELSE "raised"
    /\ UNCHANGED <<trainOnly, USE_OPTIMIZATION, counts, checkpoints, K_avg, K_gt, sched,
                   getitemLocals, derivations, keypoints_list, callLocals, run_id,
                   calib_lr, sfm_lr, writer, center, optim, K, S, f_error>>

\* the function is called on a list of up to MFrames + 1 arrays
InitConvert ==
    /\ pc = "c_call"
    /\ exception = "none"
    /\ data_loader_type = "legacy"
    /\ orientation = "portrait"
    /\ run_id = 0
    /\ f_error_weight = NaN /\ s_error_weight = NaN /\ calib_lr = NaN /\ sfm_lr = NaN
    /\ writer = NoWriter
    /\ loader = NoLoader
    /\ center = <<>>
    /\ optim = NoOptimizer
    /\ epoch = 0 /\ i = 0
    /\ batch = [f_gt |-> NaN]
    /\ fgt = NaN
    /\ K = NaNMatrices
    /\ S = "nan"
    /\ f_error = NaN /\ s_error = NaN /\ loss = NaN
    /\ saves = <<>>
    /\ ops = <<>>
    /\ diverged = FALSE
    /\ MainUnused
    /\ idx = 0
    /\ f_drawn = NaN
    /\ scale = <<>>
    /\ iter = 0
    /\ init_pose = NoPose /\ final_pose = NoPose
    /\ projected_landmarks_batch = <<>>
    /\ sample = <<>>
    /\ derivations = 0
    /\ CallsUnused
    /\ keypoints_list \in SeqsUpTo(FrameShapes, MFrames + 1)

SpecConvert == InitConvert /\ [][ConvertKeypoints]_vars

----------------------------------------------------------------------------
(* Direct calls of the static helper functions *)

\* lines 685-702: the default ranges of the pose parameters, translations in millimetres
PoseRanges ==
    [t_min |-> << <<-100, 1>>, <<-300, 1>>, <<300, 1>> >>,
     t_max |-> << <<100, 1>>, <<300, 1>>, <<500, 1>> >>,
     rot_min |-> << <<0, 1>>, <<0, 1>>, <<0, 1>> >>,
     rot_max |-> << <<1, 2>>, <<1, 2>>, <<1, 2>> >>]

\* pose pairs the loop of lines 750-802 can leave behind: the poses of the loader, and
\* one with non-zero angles (the trajectory needs no sine or cosine)
TrajectoryEndPoses ==
    Poses \cup
    {[t |-> << <<-50, 1>>, <<150, 1>>, <<500, 1>> >>, rot |-> << <<1, 2>>, <<1, 4>>, <<1, 10>> >>]}

CallsFrame ==
    UNCHANGED <<args, f_error_weight, s_error_weight, loader, indices, batch, s_error, loss,
                saves, ops, diverged, USE_OPTIMIZATION, counts, checkpoints,
                face_keypoints_tensor, K_avg, K_gt, sched, run_id, calib_lr, sfm_lr, writer,
                center, optim, S, idx, scale, iter, projected_landmarks_batch, derivations>>

\* _generate_landmark_projections, lines 805-813, for an accepted pose pair and a
\* samples_count: the six np.linspace arrays, held as one pose per frame
LinspaceTrajectory ==
    /\ pc = "call"
    /\ \E p \in TrajectoryEndPoses, q \in TrajectoryEndPoses, num \in 1..MaxSamples :
          /\ init_pose' = p
          /\ final_pose' = q
          /\ samples_count' = num
          /\ trajectory' = [k \in 1..num |-> TrajectoryPose(p, q, num, k - 1)]
    /\ pc' = "t_returned"
    /\ UNCHANGED <<exception, f_drawn, sample, extractLocals, focalLocals, fgt, K, f_error,
                   axisLocals, keypoints_list>>
    /\ CallsFrame

\* __getitem__, lines 527 and 554: f is drawn and returned as the float32 'f_gt' (the
\* other keys of the dictionary are left out)
DrawFocal ==
    /\ pc = "call"
    /\ \E r \in RandomDoubles :
          /\ random_value' = r
          /\ f_double' = FocalLength(WetSyntheticLoader.f_min, WetSyntheticLoader.f_max, r)
          /\ sample' = [f_gt |-> <<DyToRat(Float32(f_double'))>>]
    /\ pc' = "f_returned"
    /\ UNCHANGED <<exception, f_drawn, init_pose, final_pose, trajectoryLocals,
                   extractLocals, fgt, K, f_error,
                   axisLocals, keypoints_list>>
    /\ CallsFrame

\* wet_test.py:147: load_wet_data passes the landmarks of a frame and the frame's size
PassLandmarks2d ==
    /\ pc = "call"
    /\ fb_landmarks' \in Landmarks2D
    /\ \E size \in FrameSizes : fb_width' = size[1] /\ fb_height' = size[2]
    /\ flip_coordinates' \in BOOLEAN
    /\ pc' = "x2_args"
    /\ UNCHANGED <<exception, f_drawn, sample, init_pose, final_pose, trajectoryLocals,
                   focalLocals, dlib_landmarks, fgt, K, f_error,
                   axisLocals, keypoints_list>>
    /\ CallsFrame

\* wet_test.py:152-178
FaceBlaze2Dlib2d ==
    /\ pc = "x2_args"
    /\ LET out == face_blaze_2_dlib_2d(fb_landmarks, fb_width, fb_height, flip_coordinates)
       IN /\ exception' = out.exception
          /\ dlib_landmarks' = out.value
          /\ pc' = IF out.exception = "none" THEN "x2_returned" ELSE "x2_raised"
    /\ UNCHANGED <<f_drawn, sample, init_pose, final_pose, trajectoryLocals, focalLocals,
                   fb_landmarks, fb_width, fb_height, flip_coordinates, fgt, K, f_error,
                   axisLocals, keypoints_list>>
    /\ CallsFrame

\* wet_dataloader.py:506: __init__ passes the 468-landmark table
PassLandmarks3d ==
    /\ pc = "call"
    /\ fb_landmarks' \in Tables3D
    /\ pc' = "x3_args"
    /\ UNCHANGED <<exception, f_drawn, sample, init_pose, final_pose, trajectoryLocals,
                   focalLocals, fb_width, fb_height, flip_coordinates, dlib_landmarks,
                   fgt, K, f_error,
                   axisLocals, keypoints_list>>
    /\ CallsFrame

\* wet_dataloader.py:558-581
FaceBlaze2Dlib3d ==
    /\ pc = "x3_args"
    /\ LET out == face_blaze_2_dlib_3d_float32(fb_landmarks)
       IN /\ exception' = out.exception
          /\ dlib_landmarks' = out.value
          /\ pc' = IF out.exception = "none" THEN "x3_returned" ELSE "x3_raised"
    /\ UNCHANGED <<f_drawn, sample, init_pose, final_pose, trajectoryLocals, focalLocals,
                   fb_landmarks, fb_width, fb_height, flip_coordinates, fgt, K, f_error,
                   axisLocals, keypoints_list>>
    /\ CallsFrame

\* __getitem__, lines 540-553: the noisy batch becomes the float32 tensor 'x_img' with
\* its two last axes swapped (the other keys are left out)
PermuteInLoader ==
    /\ pc = "call"
    /\ noisy_batch' \in NoisyBatches
    /\ sample' = [x_img |-> permute021(FloatTensor(noisy_batch'))]
    /\ pc' = "p_sample"
    /\ UNCHANGED <<exception, f_drawn, init_pose, final_pose, trajectoryLocals,
                   extractLocals, focalLocals, x_permuted, keypoints_tensor,
                   keypoints_list, fgt, K, f_error>>
    /\ CallsFrame

\* train(), lines 107 and 129: x = batch['x_img'].float(), and x.permute(0, 2, 1) is
\* passed to compute_reprojection_error
PermuteInTrain ==
    /\ pc = "p_sample"
    /\ x_permuted' = permute021(Float(sample.x_img))
    /\ pc' = "p_returned"
    /\ UNCHANGED <<exception, f_drawn, sample, init_pose, final_pose, trajectoryLocals,
                   extractLocals, focalLocals, noisy_batch, keypoints_tensor,
                   keypoints_list, fgt, K, f_error>>
    /\ CallsFrame

\* wet_test.py:208-238, called on a list of arrays
ConvertKeypointValues ==
    /\ pc \in {"call", "p_returned"}
    /\ keypoints_list' \in KeypointLists
    /\ LET out == convert_keypoints_values(keypoints_list')
       IN /\ exception' = out.exception
          /\ keypoints_tensor' = out.value
          /\ pc' = IF out.exception = "none" THEN "c_returned" ELSE "c_raised"
    /\ UNCHANGED <<f_drawn, sample, init_pose, final_pose, trajectoryLocals,
                   extractLocals, focalLocals, noisy_batch, x_permuted, fgt, K, f_error>>
    /\ CallsFrame

\* train(), lines 113-124, on such a batch: fgt = batch['f_gt'].float(), K is
\* predicted, f_error = |K.mean(0)[0, 0] - fgt| / fgt
RelativeFocalError ==
    /\ pc = "f_returned"
    /\ fgt' = DyToRat(Float32(RatToDy(sample.f_gt[1])))
    /\ K' \in predict_intrinsic(
                 [calib_net |-> [ok |-> TRUE],
                  center |-> <<Rat(WetSyntheticLoader.camera_frame_width_pixels, 2),
                               Rat(WetSyntheticLoader.camera_frame_height_pixels, 2),
                               <<1, 1>> >>])
    /\ f_error' = FError(K', fgt')
    /\ pc' = "e_returned"
    /\ UNCHANGED <<exception, f_drawn, sample, init_pose, final_pose, callLocals,
                   keypoints_list>>
    /\ CallsFrame

\* a caller is about to call one of the helper functions
InitCalls ==
    /\ pc = "call"
    /\ exception = "none"
    /\ data_loader_type = "wet"
    /\ orientation = "portrait"
    /\ run_id = 0
    /\ f_error_weight = NaN /\ s_error_weight = NaN /\ calib_lr = NaN /\ sfm_lr = NaN
    /\ writer = NoWriter
    /\ loader = NoLoader
    /\ center = <<>>
    /\ optim = NoOptimizer
    /\ epoch = 0 /\ i = 0
    /\ batch = [f_gt |-> NaN]
    /\ fgt = NaN
    /\ K = NaNMatrices
    /\ S = "nan"
    /\ f_error = NaN /\ s_error = NaN /\ loss = NaN
    /\ saves = <<>>
    /\ ops = <<>>
    /\ diverged = FALSE
    /\ MainUnused
    /\ LoaderUnused

CallsNext ==
    \/ LinspaceTrajectory
    \/ DrawFocal
    \/ RelativeFocalError
    \/ PassLandmarks2d
    \/ FaceBlaze2Dlib2d
    \/ PassLandmarks3d
    \/ FaceBlaze2Dlib3d
    \/ PermuteInLoader
    \/ PermuteInTrain
    \/ ConvertKeypointValues

SpecCalls == InitCalls /\ [][CallsNext]_vars

----------------------------------------------------------------------------
(* Properties of train.train() *)

\* positions inside one iteration of the batch loop
InIteration ==
    pc \in {"zero_sfm", "zero_calib", "fgt", "predict", "shape", "f_error", "s_error",
            "loss", "log_f", "log_s", "log_loss", "backward", "step_sfm", "step_calib"}

\* positions of an iteration at which `loss` is the loss of that iteration
LossComputed == pc \in {"log_f", "log_s", "log_loss", "backward", "step_sfm", "step_calib"}

IsPrefix(a, b) == Len(a) <= Len(b) /\ \A k \in 1..Len(a) : a[k] = b[k]

IterationOrder ==
    <<"loader", "sfm_opt.zero_grad", "calib_opt.zero_grad", "predict_intrinsic",
      "get_shape", "compute_reprojection_error", "loss.backward", "sfm_opt.step",
      "calib_opt.step">>

\* C1: in every iteration of the joint loop both gradients are zeroed, then the forward
\* pass is evaluated, then loss.backward() runs once, then sfm_opt.step() and
\* calib_opt.step() run once each: the calls of an iteration are always a prefix of that
\* order, a finished iteration made all of them, and both optimizers have stepped the
\* same number of times whenever no iteration is under way.
C1_JointIterationOrder ==
    /\ IsPrefix(ops, IterationOrder)
    /\ ~InIteration =>
          /\ ops \in {<<>>, IterationOrder}
          /\ optim.sfm_opt.steps = optim.calib_opt.steps
          /\ optim.sfm_net.updates = optim.sfm_opt.steps
          /\ optim.calib_net.updates = optim.calib_opt.steps
    /\ pc \in {"save", "hparams"} => ops = IterationOrder

C1_Witness ==
    /\ pc = "save"
    /\ ops = IterationOrder
    /\ optim.sfm_opt.steps = BATCHES_PER_EPOCH
    /\ optim.calib_opt.steps = BATCHES_PER_EPOCH

\* C4 (as claimed): once a loss of the run is NaN or Inf, no optimizer steps again in
\* that run and no checkpoint is saved for it.
C4_AbortOnNonFiniteLoss ==
    [][diverged =>
          /\ optim'.sfm_opt.steps = optim.sfm_opt.steps
          /\ optim'.calib_opt.steps = optim.calib_opt.steps
          /\ saves' = saves]_vars

\* C7: the loss that is back-propagated is f_error_weight * f_error +
\* s_error_weight * s_error with f_error = |mean_m K[m,0,0] - f_gt| / f_gt, and the two
\* weights are those of the run's element of the product.
C7_LossIsWeightedSum ==
    /\ LossComputed =>
          /\ f_error = RatDiv(RatAbs(RatSub(RatDiv(SumTo([m \in 1..MFrames |-> K[m][1][1]],
                                                         MFrames),
                                                   <<MFrames, 1>>), fgt)), fgt)
          /\ loss = RatAdd(RatMul(f_error_weight, f_error), RatMul(s_error_weight, s_error))
    /\ (InIteration \/ pc \in {"batch", "save", "hparams"}) =>
          /\ f_error_weight = F_ERROR_WEIGHTS[((run_id \div 27) % 3) + 1]
          /\ s_error_weight = S_ERROR_WEIGHTS[((run_id \div 9) % 3) + 1]

C7_Witness ==
    /\ pc = "backward"
    /\ i > 0
    /\ IsFinite(loss)
    /\ f_error # <<0, 1>>
    /\ f_error_weight # s_error_weight
    /\ loss # RatAdd(f_error, s_error)

\* the combinations for which a checkpoint has been saved
SavedCombinations == {<<saves[k].fw, saves[k].sw, saves[k].clr, saves[k].slr>> : k \in 1..Len(saves)}

AllCombinations ==
    {<<F_ERROR_WEIGHTS[a], S_ERROR_WEIGHTS[b], CALIB_LRS[c], SFM_LRS[d]>> :
        a \in 1..3, b \in 1..3, c \in 1..3, d \in 1..3}

\* C8: a run that leaves its loops has made exactly EPOCHS_COUNT * BATCHES_PER_EPOCH
\* gradient steps, and a sweep that ends has made exactly one run for each of the
\* 3*3*3*3 = 81 elements of the product.
C8_StepsAndRuns ==
    /\ pc = "hparams" =>
          /\ optim.sfm_net.updates = EPOCHS_COUNT * BATCHES_PER_EPOCH
          /\ optim.calib_net.updates = EPOCHS_COUNT * BATCHES_PER_EPOCH
    /\ pc = "done" =>
          /\ run_id = 81
          /\ Len(saves) = 81 * EPOCHS_COUNT
          /\ SavedCombinations = AllCombinations
          /\ Cardinality(AllCombinations) = 81

C8_Witness == pc = "done" /\ exception = "none" /\ run_id = 81

ScalarTags == <<"error/f_error", "error/s_error", "loss/train">>

\* C9: within a run each gradient step emits one f_error, one s_error and one loss, in
\* that order and with the same global step; the global step of the n-th gradient step
\* of the run is n - 1, so it increases strictly and is never used twice.
C9_ScalarsPerStep ==
    /\ \A k \in 1..Len(writer.scalars) :
          writer.scalars[k] = <<ScalarTags[((k - 1) % 3) + 1], (k - 1) \div 3>>
    /\ pc \in {"batch", "save", "hparams"} => Len(writer.scalars) = 3 * optim.sfm_opt.steps
    /\ pc = "step_calib" => Len(writer.scalars) = 3 * optim.sfm_opt.steps
    /\ pc = "backward" =>
          /\ Len(writer.scalars) = 3 * (optim.sfm_opt.steps + 1)
          /\ writer.scalars[Len(writer.scalars)][2] = epoch * BATCHES_PER_EPOCH + i

C9_Witness ==
    /\ pc = "hparams"
    /\ Len(writer.scalars) = 3 * EPOCHS_COUNT * BATCHES_PER_EPOCH
    /\ writer.scalars[Len(writer.scalars)] = <<"loss/train", EPOCHS_COUNT * BATCHES_PER_EPOCH - 1>>

\* C11: optim.save is called only at an epoch boundary: a run has saved one checkpoint
\* for each epoch it has completed, and a save happens only when the last iteration of
\* the epoch has made all its calls and both optimizers have made all
\* (epoch + 1) * BATCHES_PER_EPOCH steps, never between a zero_grad and a step.
C11_SaveAtEpochBoundary ==
    /\ []((InIteration \/ pc \in {"batch", "save"}) =>
             Len(saves) = run_id * EPOCHS_COUNT + epoch)
    /\ [](pc = "hparams" => Len(saves) = (run_id + 1) * EPOCHS_COUNT)
    /\ [][saves' # saves =>
             /\ Len(saves') = Len(saves) + 1
             /\ pc = "save"
             /\ ops = IterationOrder
             /\ optim.sfm_opt.steps = (epoch + 1) * BATCHES_PER_EPOCH
             /\ optim.calib_opt.steps = (epoch + 1) * BATCHES_PER_EPOCH
             /\ optim' = optim]_vars

C11_Witness ==
    /\ pc = "hparams"
    /\ run_id = 1
    /\ Len(saves) = 2 * EPOCHS_COUNT
    /\ optim.calib_opt.steps = EPOCHS_COUNT * BATCHES_PER_EPOCH

\* C12: within one call of train() the token string handed to optim.save is never one
\* that an earlier save of the call was handed, and saves of different
\* (epoch, f_error_weight, s_error_weight, calib_lr, sfm_lr) differ in their strings.
C12_TokensDistinct ==
    [][saves' # saves =>
          \A k \in 1..Len(saves) :
             /\ saves[k] # saves'[Len(saves')]
             /\ TokenString(saves[k]) # TokenString(saves'[Len(saves')])]_vars

C12_Witness ==
    /\ Len(saves) = 81 * EPOCHS_COUNT
    /\ TokenString(saves[1]) = "00_orient=" \o orientation \o
                                   "_fw=0.10_sw=0.10_clr=0.010000_slr=0.001000_"
    /\ TokenString(saves[81]) = "00_orient=" \o orientation \o
                                    "_fw=10.00_sw=10.00_clr=0.000100_slr=0.000010_"

\* C18 (as claimed): with data_loader_type 'wet' and either orientation, train() gets
\* past the construction of the loader without an exception, holding a
\* WetSyntheticLoader and the principal point (width / 2, height / 2, 1) of its frame.
C18_WetLoaderConstructed ==
    (/\ data_loader_type = "wet"
     /\ orientation \in Orientations
     /\ pc \notin {"script", "run_init", "loader"}) =>
       /\ exception = "none"
       /\ loader = WetSyntheticLoader
       /\ center = <<Rat(WetSyntheticLoader.camera_frame_width_pixels, 2),
                     Rat(WetSyntheticLoader.camera_frame_height_pixels, 2), <<1, 1>> >>

\* C21: a data loader type other than 'legacy' and 'wet' ends the script (line 177) or
\* the call of train() (line 81) with a ValueError, and up to then no Optimizer has been
\* constructed, no optimizer operation has run, no scalar or summary has been written
\* and no checkpoint has been saved.
C21_UnsupportedLoaderRejected ==
    data_loader_type \notin {"legacy", "wet"} =>
       /\ optim = NoOptimizer
       /\ ops = <<>>
       /\ saves = <<>>
       /\ writer.scalars = <<>> /\ writer.hparams = <<>>
       /\ pc \in {"script", "run_init", "loader", "raised"}
       /\ pc = "raised" <=> exception = "ValueError"

C21_Witness ==
    /\ data_loader_type = "other"
    /\ pc = "raised"
    /\ exception = "ValueError"
    /\ writer # NoWriter
    /\ loader = NoLoader

\* train() is inside the loops of a run (lines 92-161)
InRun ==
    pc \in {"batch", "zero_sfm", "zero_calib", "fgt", "predict", "shape", "f_error",
            "s_error", "loss", "log_f", "log_s", "log_loss", "backward", "step_sfm",
            "step_calib", "save", "hparams"}

\* C23: a run of the sweep enters its loops with an Optimizer and two Adam optimizers
\* constructed for it, and through the run the weights of both nets stem from that
\* construction, both step counts count the steps of this run only, and the learning
\* rates are the calib_lr and sfm_lr of the run's combination.
C23_FreshRunState ==
    InRun =>
       /\ (epoch = 0 /\ i = 0 /\ pc = "batch") =>
             optim = Optimizer(center, run_id, sfm_lr, calib_lr)
       /\ optim.calib_net.weights = [from |-> "init", id |-> run_id, token |-> ""]
       /\ optim.sfm_net.weights = [from |-> "init", id |-> run_id, token |-> ""]
       /\ optim.calib_opt.lr = product(hparam_values, run_id)[3]
       /\ optim.sfm_opt.lr = product(hparam_values, run_id)[4]
       /\ optim.calib_opt.lr = calib_lr /\ optim.sfm_opt.lr = sfm_lr
       /\ \A opt \in {optim.calib_opt, optim.sfm_opt} :
             opt.steps \in {epoch * BATCHES_PER_EPOCH + i, epoch * BATCHES_PER_EPOCH + i + 1}
       /\ optim.calib_net.updates <= optim.calib_opt.steps
       /\ optim.sfm_net.updates <= optim.sfm_opt.steps

C23_Witness ==
    /\ pc = "step_sfm"
    /\ run_id = 1
    /\ epoch = 0 /\ i = 0
    /\ Len(saves) = EPOCHS_COUNT
    /\ optim.sfm_opt.steps = 0
    /\ optim.sfm_opt.lr # saves[1].slr

\* C20 (as claimed): with the legacy loader the value of --orientation plays no part in
\* what the script does: it raises nothing, and the run comment and every token handed
\* to optim.save are the ones any other orientation gives.
C20_LegacyIgnoresOrientation ==
    data_loader_type = "legacy" =>
       /\ exception = "none"
       /\ \A o \in Orientations :
             /\ writer # NoWriter => writer.comment = [writer.comment EXCEPT ![3] = o]
             /\ \A k \in 1..Len(saves) : saves[k] = [saves[k] EXCEPT !.orient = o]

----------------------------------------------------------------------------
(* Properties of the schedule controller *)

\* C2: a dualoptimization run with counts G, C, S makes G rounds of C calibration steps
\* followed by S SFM steps: in the calibration phase of round r (from 0) the intrinsic
\* estimator has made r*C + step updates and the shape estimator r*S; the SFM phase of
\* the round is entered only with (r+1)*C calibration updates made; and
\* CONVERGED_OR_MAXITER is entered with G*C and G*S updates, G*(C+S) in all.
C2_DualRounds ==
    sched.kind = "dual" =>
       /\ sched.state \in {"ALTERNATING_CALIB_PHASE", "ALTERNATING_SFM_PHASE",
                           "CONVERGED_OR_MAXITER", "FAILED"}
       /\ sched.state = "ALTERNATING_CALIB_PHASE" =>
             /\ sched.round < sched.G /\ sched.step < sched.C
             /\ optim.calib_net.updates = sched.round * sched.C + sched.step
             /\ optim.sfm_net.updates = sched.round * sched.S
       /\ sched.state = "ALTERNATING_SFM_PHASE" =>
             /\ sched.round < sched.G /\ sched.step < sched.S
             /\ optim.calib_net.updates = (sched.round + 1) * sched.C
             /\ optim.sfm_net.updates = sched.round * sched.S + sched.step
       /\ sched.state = "CONVERGED_OR_MAXITER" =>
             /\ sched.round = sched.G
             /\ optim.calib_net.updates = sched.G * sched.C
             /\ optim.sfm_net.updates = sched.G * sched.S
             /\ optim.calib_opt.steps + optim.sfm_opt.steps = sched.G * (sched.C + sched.S)

C2_Witness ==
    /\ sched.kind = "dual"
    /\ sched.state = "CONVERGED_OR_MAXITER"
    /\ sched.G > 1 /\ sched.C > 1 /\ sched.S > sched.C
    /\ optim.calib_opt.steps + optim.sfm_opt.steps = sched.G * (sched.C + sched.S)

\* C3: a gradient step of the calibration phase of the alternating schedule leaves the
\* parameters of the shape estimator as they are, a step of its SFM phase leaves those
\* of the intrinsic estimator as they are, and the sequential schedule never goes from
\* SEQUENTIAL_SFM (or from its end) back to SEQUENTIAL_CALIB.
C3_FrozenEstimator ==
    [][/\ sched.state = "ALTERNATING_CALIB_PHASE" =>
             Params(optim'.sfm_net) = Params(optim.sfm_net)
       /\ sched.state = "ALTERNATING_SFM_PHASE" =>
             Params(optim'.calib_net) = Params(optim.calib_net)
       /\ (sched.kind = "sequential" /\ sched.state # "SEQUENTIAL_CALIB") =>
             sched'.state # "SEQUENTIAL_CALIB"]_vars

C3_Witness ==
    /\ sched.state = "ALTERNATING_SFM_PHASE"
    /\ sched.round > 0
    /\ sched.step > 0
    /\ optim.calib_net.updates > 0
    /\ optim.sfm_net.updates > 0

----------------------------------------------------------------------------
(* Properties of wet_test.main() *)

AfterLoad ==
    pc \in {"m_landmarks", "m_optimize", "m_dual", "m_shape", "m_k_avg", "m_load_gt",
            "m_f_error", "m_hparams"}

Restored(net) ==
    /\ net.weights.from = "checkpoint"
    /\ net.weights.token = tokens[PRE_TRAINED_MODEL_INDEX + 1]
    /\ net.weights.token \in checkpoints

\* C6: main() reaches the prediction and the optimization only with both nets restored
\* from the checkpoint of the selected token; when the token has no artifact the failure
\* leaves main() and nothing has been predicted or optimized.
C6_LoadBeforeUse ==
    /\ AfterLoad => Restored(optim.calib_net) /\ Restored(optim.sfm_net)
    /\ sched.state # "idle" => Restored(optim.calib_net) /\ Restored(optim.sfm_net)
    /\ tokens[PRE_TRAINED_MODEL_INDEX + 1] \notin checkpoints =>
          /\ ~AfterLoad
          /\ pc # "done"
          /\ run_id = 0
          /\ K = NaNMatrices /\ S = "nan" /\ K_avg = <<>>
          /\ sched = NoSchedule
          /\ optim.calib_net.updates = 0 /\ optim.sfm_net.updates = 0
    /\ exception = "CheckpointNotFound" => pc = "raised"

C6_Witness ==
    /\ pc = "raised"
    /\ exception = "CheckpointNotFound"
    /\ optim.calib_net.weights.from = "init"
    /\ K = NaNMatrices

TrainTokens ==
    {TokenString(SaveToken(e, o, c[1], c[2], c[3], c[4])) :
        e \in 0..(EPOCHS_COUNT - 1), o \in Orientations, c \in AllCombinations}

\* C13 (as claimed): every token of the list from which main() takes the argument of
\* optim.load is a string that train() hands to optim.save for some combination, epoch
\* and orientation.
C13_HarnessTokensKnown ==
    pc = "m_load" => \A k \in 1..Len(tokens) : tokens[k] \in TrainTokens

\* C16 (as claimed): convert_keypoints_list_to_tensor returns a tensor only for a list
\* of M frames (MFrames here, 100 in the source) of 68 two-coordinate landmarks each.
C16_ShapeMismatchRejected ==
    pc = "c_returned" =>
       /\ Len(keypoints_list) = MFrames
       /\ \A k \in 1..Len(keypoints_list) : keypoints_list[k] = <<68, 2>>

\* C19: in main() the ground-truth matrix plays no part in the calibration result. It is
\* assigned only at line 389, when K, S and K_avg of the run are complete, and that
\* step changes none of them nor the Optimizer; when it is at hand, K and S are what
\* the Optimizer of the run gives for the landmarks and K_avg is the average of K,
\* whatever ground truth an earlier run left behind; f_error alone is computed from it.
C19_GroundTruthNotUsed ==
    /\ [](pc \in {"m_f_error", "m_hparams"} =>
             /\ K \in predict_intrinsic(optim)
             /\ S = get_shape(optim)
             /\ K_avg = KAvg(K)
             /\ K_gt \in KGtValues)
    /\ [][K_gt' # K_gt =>
             /\ pc = "m_load_gt"
             /\ K_avg = KAvg(K)
             /\ <<K, S, K_avg, optim>>' = <<K, S, K_avg, optim>>]_vars
    /\ [][<<K, S, K_avg, optim>>' # <<K, S, K_avg, optim>> =>
             pc \notin {"m_load_gt", "m_f_error", "m_hparams"}]_vars
    /\ [][f_error' # f_error =>
             /\ pc = "m_f_error"
             /\ f_error' = RatDiv(RatAbs(RatSub(K_avg[1][1], K_gt[1][1])), K_gt[1][1])]_vars

C19_Witness ==
    /\ pc = "m_f_error"
    /\ run_id = 1
    /\ IsFinite(K_avg[1][1])
    /\ K_avg[1][1] # K_gt[1][1]
    /\ Len(writer.hparams) = 0

\* C22: from line 386 to the end of a run, K_avg is [[f, 0, px], [0, f, py], [0, 0, 1]]
\* with f, px and py the means over the frames of K[:, 0, 0], K[:, 0, 2] and K[:, 1, 2]
\* (MFrames times the entry is the sum over the frames; non-finite when K is).
C22_KAvgStructure ==
    pc \in {"m_load_gt", "m_f_error", "m_hparams"} =>
       /\ RatMul(K_avg[1][1], <<MFrames, 1>>) = SumTo([m \in 1..MFrames |-> K[m][1][1]], MFrames)
       /\ RatMul(K_avg[1][3], <<MFrames, 1>>) = SumTo([m \in 1..MFrames |-> K[m][1][3]], MFrames)
       /\ RatMul(K_avg[2][3], <<MFrames, 1>>) = SumTo([m \in 1..MFrames |-> K[m][2][3]], MFrames)
       /\ K_avg[2][2] = K_avg[1][1]
       /\ K_avg[1][2] = <<0, 1>> /\ K_avg[2][1] = <<0, 1>>
       /\ K_avg[3][1] = <<0, 1>> /\ K_avg[3][2] = <<0, 1>>
       /\ K_avg[3][3] = <<1, 1>>

C22_Witness ==
    /\ pc = "m_load_gt"
    /\ K[1][1][1] = <<300, 1>>
    /\ K[MFrames][1][1] = <<600, 1>>
    /\ K_avg[1][1] = <<450, 1>>
    /\ K_avg[1][3] = <<240, 1>>

----------------------------------------------------------------------------
(* Properties of wet_dataloader.WetSyntheticLoader *)

\* C14 (as claimed): the search for a pose pair always ends, with a pair whose landmarks
\* all lie inside the frame or with a failure that leaves the loader.
C14_BoundedRetry == (pc = "w_pose") ~> (pc \in {"w_frames", "raised"})

\* the frames of the batch for given draws: frame m lies at step m - 1 of the trajectory
BatchFor(table, foc, sc, p, q) ==
    [m \in 1..MFrames |->
        generate_landmark_projection(table, 480, 640, foc,
                                     TrajectoryPose(p, q, MFrames, m - 1), sc)]

\* C15: a call of __getitem__ that returns yields M frames (MFrames here, 100 in the
\* source) of two rows of 68 finite pixel coordinates each, and one ground-truth focal
\* length; the shape assertion never fails; and the result is what the random draws of
\* the call determine, each drawn from a set in which idx plays no part.
C15_BatchShape ==
    /\ exception # "AssertionError"
    /\ pc = "w_returned" =>
          /\ Len(sample.x_img) = MFrames
          /\ \A m \in 1..MFrames :
                /\ Len(sample.x_img[m]) = 2
                /\ \A c \in 1..2 :
                      /\ Len(sample.x_img[m][c]) = 68
                      /\ \A n \in 1..68 : IsFinite(sample.x_img[m][c][n])
          /\ sample.f_gt = <<f_drawn>>
          /\ f_drawn \in {RatAdd(<<300, 1>>, RatMul(r, <<300, 1>>)) : r \in RandomValues}
          /\ scale \in ScaleValues
          /\ init_pose \in Poses /\ final_pose \in Poses
          /\ \E a \in NoiseAmplitudes :
                sample = Sample(BatchFor(face_blaze_2_dlib_3d(FACE_BLAZE_3D_LANDMARKS_FCS),
                                         f_drawn, scale, init_pose, final_pose),
                                NoiseArray(a, MFrames, 68), f_drawn)

C15_Witness ==
    /\ pc = "w_returned"
    /\ idx = 7
    /\ iter > 0
    /\ init_pose # final_pose
    /\ sample.x_img[1][1][1] # sample.x_img[MFrames][1][1]

\* the pixel lies strictly inside the frame of the loader
StrictlyInside(pixel) ==
    /\ IsFinite(pixel[1]) /\ IsFinite(pixel[2])
    /\ 0 < pixel[1][1] /\ pixel[1][1] < 480 * pixel[1][2]
    /\ 0 < pixel[2][1] /\ pixel[2][1] < 640 * pixel[2][2]

\* C24: once the rejection loop has been left, every landmark of the projections of the
\* accepted initial and final pose lies strictly inside the frame, a landmark on the
\* border included in what is rejected; and the first and the last frame of the batch
\* _generate_landmark_projections returns are those two projections.
C24_AcceptedPairInsideFrame ==
    pc \in {"w_frames", "w_assert", "w_returned"} =>
       LET initial_projection ==
               generate_landmark_projection(loader.DLIB_LANDMARKS_3D_FCS, 480, 640,
                                            f_drawn, init_pose, scale)
           final_projection ==
               generate_landmark_projection(loader.DLIB_LANDMARKS_3D_FCS, 480, 640,
                                            f_drawn, final_pose, scale)
       IN /\ \A n \in 1..68 : StrictlyInside(initial_projection[n])
          /\ \A n \in 1..68 : StrictlyInside(final_projection[n])
          /\ pc # "w_frames" =>
                /\ projected_landmarks_batch[1] = initial_projection
                /\ projected_landmarks_batch[MFrames] = final_projection

C24_Witness ==
    /\ pc = "w_assert"
    /\ iter > 0
    /\ f_drawn = <<300, 1>>
    /\ scale = << <<1, 1>>, <<1, 1>>, <<1, 1>> >>
    /\ init_pose # final_pose
    /\ projected_landmarks_batch[1] # projected_landmarks_batch[MFrames]

\* x lies between a and b, whichever of the two is the larger
Between(a, x, b) ==
    /\ IsFinite(x)
    /\ \/ ~RatLess(x, a) /\ ~RatLess(b, x)
       \/ ~RatLess(x, b) /\ ~RatLess(a, x)

C26_FocalAndScaleFixed ==
    /\ [][(pc \in {"w_pose", "w_check", "w_frames", "w_assert"}) =>
             (f_drawn' = f_drawn /\ scale' = scale)]_vars
    /\ [][(pc = "w_check" /\ pc' = "w_pose") =>
             (iter' \in {iter + 1, MaxIter} /\
              <<loader, idx, projected_landmarks_batch, sample>>' =
                 <<loader, idx, projected_landmarks_batch, sample>>)]_vars
    /\ [](pc = "w_assert" =>
             projected_landmarks_batch =
                BatchFor(loader.DLIB_LANDMARKS_3D_FCS, f_drawn, scale, init_pose, final_pose))

C26_Witness ==
    /\ pc = "w_assert"
    /\ iter = MaxIter
    /\ scale # << <<1, 1>>, <<1, 1>>, <<1, 1>> >>
    /\ f_drawn # <<300, 1>>
    /\ Len(projected_landmarks_batch) = MFrames

\* C27 as stated: the ground-truth focal length of a batch is at least f_min and below
\* f_max, 300 <= f_gt < 600
C27_FocalBelowMax ==
    pc \in {"f_returned", "e_returned"} =>
       /\ ~RatLess(sample.f_gt[1], <<WetSyntheticLoader.f_min, 1>>)
       /\ RatLess(sample.f_gt[1], <<WetSyntheticLoader.f_max, 1>>)

\* C27, amended: the ground-truth focal length of a batch lies in [f_min, f_max],
\* 300 <= f_gt <= 600 (rounding can reach f_max); it is positive, and the relative
\* focal error train() computes from it is finite: no division by zero.
C27_FocalInRange ==
    /\ pc \in {"f_returned", "e_returned"} =>
          /\ ~RatLess(sample.f_gt[1], <<WetSyntheticLoader.f_min, 1>>)
          /\ ~RatLess(<<WetSyntheticLoader.f_max, 1>>, sample.f_gt[1])
          /\ RatLess(<<0, 1>>, sample.f_gt[1])
    /\ pc = "e_returned" =>
          /\ fgt = sample.f_gt[1]
          /\ IsFinite(f_error)
          /\ f_error = RatDiv(RatAbs(RatSub(Mean(Entry(K, 1, 1)), fgt)), fgt)

C27_Witness ==
    /\ pc = "e_returned"
    /\ random_value = Dy(1, 1, 25)
    /\ f_double = Dy(600, 75, 23)
    /\ sample.f_gt = << <<600, 1>> >>
    /\ f_error = <<1, 4>>

\* the float32 b and the rational x are the same number
SameValue(b, x) == b.e <= 30 /\ BinToRat(b) = x

\* a rational that is a float32 value
IsFloat32Value(x) == x[2] = 2^Log2Floor(x[2]) /\ Abs(x[1]) < 2^24

\* the mapping has 68 entries, each a row index of the 468-row table, none twice
MappingWellFormed ==
    /\ Len(DLIB_2_FACE_BLAZE_MAPPING) = 68
    /\ \A k \in 1..Len(DLIB_2_FACE_BLAZE_MAPPING) : DLIB_2_FACE_BLAZE_MAPPING[k] \in 0..467
    /\ \A k, n \in 1..Len(DLIB_2_FACE_BLAZE_MAPPING) :
          k # n => DLIB_2_FACE_BLAZE_MAPPING[k] # DLIB_2_FACE_BLAZE_MAPPING[n]

\* an extraction without flipping has returned, or is about to
Extracting ==
    \/ pc \in {"x3_args", "x3_returned", "x3_raised"}
    \/ pc \in {"x2_args", "x2_returned", "x2_raised"} /\ ~flip_coordinates

Selected(k) == fb_landmarks[DLIB_2_FACE_BLAZE_MAPPING[k] + 1]

\* w - x and h - y for the input point of output point k, as real numbers
Mirrored(k) ==
    <<RatSub(<<fb_width, 1>>, Selected(k)[1]), RatSub(<<fb_height, 1>>, Selected(k)[2])>>

C30_AxisOrderConsistent ==
    /\ pc \in {"p_sample", "p_returned"} =>
          /\ Len(sample.x_img) = MFrames
          /\ \A m \in 1..MFrames :
                /\ Len(sample.x_img[m]) = 2
                /\ \A c \in 1..2 :
                      /\ Len(sample.x_img[m][c]) = 68
                      /\ \A k \in 1..68 :
                            sample.x_img[m][c][k] = NearestFloat32(noisy_batch[m][k][c])
    /\ pc = "p_returned" =>
          /\ x_permuted = FloatTensor(noisy_batch)
          /\ \A m \in 1..MFrames : \A k \in 1..68 : \A c \in 1..2 :
                x_permuted[m][k][c] = sample.x_img[m][c][k]
    /\ pc = "c_returned" =>
          /\ Len(keypoints_list) = MFrames
          /\ Len(keypoints_tensor) = MFrames
          /\ \A n \in 1..MFrames :
                /\ Len(keypoints_tensor[n]) = 2
                /\ \A c \in 1..2 :
                      /\ Len(keypoints_tensor[n][c]) = 68
                      /\ \A k \in 1..68 :
                            keypoints_tensor[n][c][k] = keypoints_list[n][k][c]

C30_Witness ==
    /\ pc = "c_returned"
    /\ Len(noisy_batch) = MFrames
    /\ Len(x_permuted) = MFrames
    /\ noisy_batch[1][5][2] = <<1052, 3>>
    /\ sample.x_img[1][2][5] = NearestFloat32(<<1052, 3>>)
    /\ x_permuted[1][5][2] = NearestFloat32(<<1052, 3>>)
    /\ keypoints_list[MFrames][7] = << <<100 * MFrames + 7, 1>>, <<200 * MFrames + 21, 2>> >>
    /\ keypoints_tensor[MFrames][2][7] = <<200 * MFrames + 21, 2>>

\* C17: the loader's 68-landmark table is derived from the 468-landmark table once, when
\* the loader is constructed; afterwards both tables keep the values of the source
\* through every call of __getitem__, rejected pose pairs, scaling and projection
\* included, and the derivation is not made again.
C17_StaticLandmarkTable ==
    /\ [](pc # "w_new" =>
             /\ derivations = 1
             /\ loader.FACE_BLAZE_3D_LANDMARKS_FCS = FACE_BLAZE_3D_LANDMARKS_FCS
             /\ Len(loader.DLIB_LANDMARKS_3D_FCS) = 68
             /\ \A k \in 1..68 :
                   loader.DLIB_LANDMARKS_3D_FCS[k] =
                      FACE_BLAZE_3D_LANDMARKS_FCS[DLIB_2_FACE_BLAZE_MAPPING[k] + 1])
    /\ [][pc # "w_new" => loader' = loader /\ derivations' = derivations]_vars

C17_Witness ==
    /\ pc = "w_frames"
    /\ i = 1
    /\ iter = MaxIter
    /\ scale # << <<1, 1>>, <<1, 1>>, <<1, 1>> >>
    /\ derivations = 1

====
